---- MODULE Spec2Model ----
(***************************************************************************)
(* A model of rqlite-go-http: the pooled endpoint selector (RandomBalancer *)
(* with its prober and promoter goroutines), the HTTP client (credentials, *)
(* error promotion, status handling) and the SQL statement JSON codec.     *)
(*                                                                         *)
(* The specifications share the module, one per component:                 *)
(*   BalSpec / BalFairSpec  - the pooled selector                          *)
(*   PoolSpec               - the pooled selector with Healthy() and Bad() *)
(*   CliSpec                - the client                                   *)
(*   StmtSpec               - the statement codec, one statement           *)
(*   StmtsSpec              - the statement codec, a sequence of statements*)
(*   OptSpec                - the options encoder and the request URL      *)
(*   DecSpec                - the response decoder                         *)
(*   LoadSpec               - Load: the sniffing of the input stream       *)
(*   HasSpec                - HasError of the decoded responses            *)
(*   CntSpec                - the selector told of successes and failures  *)
(* A specification leaves the variables of the other components at their   *)
(* initial value.                                                          *)
(***************************************************************************)
EXTENDS FiniteSets, Integers, Sequences, TLC

\* ------------------------------------------------------------------ bounds
\* The longest address list handed to NewRandomBalancer.
MaxAddrs == 2
\* The most per-statement results a response body holds.
MaxResults == 2
\* The most positional parameters a statement holds.
MaxParams == 2
\* The most statements a sequence of statements holds.
MaxStmts == 3
\* The most fields a struct passed to MakeURLValues holds.
MaxFields == 2
\* The most bytes that follow the first 13 of a stream given to Load.
MaxTail == 2

\* ------------------------------------------------------------- vocabulary
Nil == "nil"
NilChan == "nilchan"
NotCalled == "notcalled"
NoURL == "nourl"

ErrNoHostsAvailable == "no hosts available"
ErrDuplicateAddresses == "duplicate addresses provided"
ErrParse == "url parse error"

Range(s) == {s[i] : i \in DOMAIN s}

VARIABLES
    \* --- pooled selector (RandomBalancer)
    addresses,    \* the argument NewRandomBalancer was called with
    ctorErr,      \* NotCalled, Nil (constructed) or the construction error
    hosts,        \* rb.hosts: the sequence of host URLs (as strings)
    healthy,      \* rb.hosts[i].Healthy
    mu,           \* rb.mu: [r: threads holding RLock, q: threads waiting in Lock]
    ch,           \* rb.ch
    done,         \* rb.done
    wg,           \* rb.wg counter
    probPC,       \* position of the checkBadHosts goroutine
    probIdx,      \* its loop index over rb.hosts
    promPC,       \* position of the markGoodHosts goroutine
    promU,        \* the URL markGoodHosts received
    callPC,       \* position of each calling goroutine
    callArg,      \* the argument of the call in progress
    callRet,      \* the result of the call in progress
    closePC,      \* position of the goroutine that calls Close
    crashed,      \* the process died of an unrecovered panic
    hostUp,       \* environment: what the health predicate answers for a URL
    quarantined,  \* history: MarkBad(u) ran and no probe of u has passed since
    callList      \* the slice the Healthy() or Bad() call in progress returns

balVars == <<addresses, ctorErr, hosts, healthy, mu, ch, done, wg, probPC, probIdx,
             promPC, promU, callPC, callArg, callRet, closePC, crashed, hostUp,
             quarantined, callList>>

VARIABLES
    \* --- client (Client)
    basicAuthUser,  \* c.basicAuthUser
    basicAuthPass,  \* c.basicAuthPass
    promoteErrors,  \* c.promoteErrors (atomic.Bool)
    cfgPC,          \* position of the goroutine that configures the client
    cfgArg,         \* the arguments of the SetBasicAuth call in progress
    reqPC,          \* position of the goroutine that issues requests
    reqOp,          \* the public operation it is in
    reqTmpU,        \* the user name doRequest read for the header
    reqHdr,         \* the Authorization header of the request built
    reqOut,         \* what the HTTP exchange produced
    reqRet,         \* what the operation returns
    authPairs,      \* history: the argument pairs of the SetBasicAuth calls so far
    lastAuth,       \* history: the arguments of the most recent SetBasicAuth call
    lastPromote,    \* history: the argument of the most recent PromoteErrors call
    raced,          \* history: a SetBasicAuth step ran during the request in flight
    reqSent,        \* history: the c.httpClient.Do calls of the call in progress
    respBody        \* the body of the response the call in progress obtained

cliVars == <<basicAuthUser, basicAuthPass, promoteErrors, cfgPC, cfgArg, reqPC, reqOp,
             reqTmpU, reqHdr, reqOut, reqRet, authPairs, lastAuth, lastPromote, raced,
             reqSent, respBody>>

VARIABLES
    \* --- statement codec (SQLStatement)
    stmt,           \* the statement to encode
    stPC,           \* "new", "encoded" or "decoded"
    stJSON,         \* the JSON value MarshalJSON produced
    stDec,          \* the statement UnmarshalJSON filled in
    stErr           \* the error UnmarshalJSON returned

VARIABLES
    \* --- statement codec (SQLStatements)
    stmts,          \* the sequence of statements to encode
    stsPC,          \* "new", "encoded" or "decoded"
    stsJSON,        \* the JSON value SQLStatements.MarshalJSON produced
    stsDec,         \* the SQLStatements value json.Unmarshal was given to fill
    stsErr          \* the error json.Unmarshal returned

stmtVars == <<stmt, stPC, stJSON, stDec, stErr, stmts, stsPC, stsJSON, stsDec, stsErr>>

VARIABLES
    \* --- options encoder (MakeURLValues) and the URL doRequest builds
    optOp,          \* the caller: a client operation, or "MakeURLValues" itself
    optIn,          \* the value passed as input
    optPC,          \* "new", "encoded" or "built"
    optVals,        \* the url.Values MakeURLValues returned
    optErr,         \* the error MakeURLValues returned
    optURL          \* fullURL of doRequest

optVars == <<optOp, optIn, optPC, optVals, optErr, optURL>>

VARIABLES
    \* --- response decoder (QueryResponse, RequestResponse)
    decOp,          \* "Query" or "Request": the response type decoded into
    decIn,          \* the "results" value of the response body
    decPC,          \* "new" or "decoded"
    decOut,         \* the Results of the decoded response
    decErr          \* the error json.Unmarshal returned

decVars == <<decOp, decIn, decPC, decOut, decErr>>

VARIABLES
    \* --- Load
    loadIn,         \* the bytes of the input stream r
    loadPC,         \* "new", "read", "sent" or "returned"
    loadFirst13,    \* the buffer first13
    loadRest,       \* the bytes r has left after the first Read
    loadErr,        \* the error Load returns before sending
    loadCT,         \* the Content-Type of the request
    loadBody        \* the bytes of the request body

loadVars == <<loadIn, loadPC, loadFirst13, loadRest, loadErr, loadCT, loadBody>>

\* The variables of the components that carry data to and from the wire.
wireVars == <<optVars, decVars, loadVars>>

VARIABLES
    \* --- HasError of the three response types
    hasOp,          \* the operation that got the response
    hasBody,        \* the JSON envelope the service sent with status 200
    hasPC,          \* "new", "decoded" or "reported"
    hasResp,        \* the response json.Unmarshal filled in
    hasRet          \* what HasError returned

hasVars == <<hasOp, hasBody, hasPC, hasResp, hasRet>>

VARIABLES
    \* --- counting selector (the RandomBalancer with MarkSuccess/MarkFailure)
    cntArgs,        \* the argument NewRandomBalancer was called with
    cntErr,         \* NotCalled, Nil (constructed) or the construction error
    cntAddresses,   \* rb.addresses: address -> available
    numAvailable,   \* rb.numAvailable
    cntLast         \* history: the most recent call, as <<method, address>>

cntVars == <<cntArgs, cntErr, cntAddresses, numAvailable, cntLast>>

vars == <<balVars, cliVars, stmtVars, wireVars, hasVars, cntVars>>

\* ------------------------------------------------------- pooled selector
\* The address strings the callers use, and the URLs they stand for.
AddrUniverse == {"http://a", "HTTP://a", "http://b", ":bad"}
URLs == {"http://a", "http://b"}
UnknownURL == "http://c"
Callers == {"c1", "c2"}

AddrLists == UNION {[1..n -> AddrUniverse] : n \in 0..MaxAddrs}

\* url.Parse(s) followed by u.String(): the scheme is lower-cased, an address
\* without a scheme does not parse.
urlString(s) ==
    IF s = ":bad" THEN ErrParse
    ELSE IF s = "HTTP://a" THEN "http://a"
    ELSE s

\* The loop of NewRandomBalancer over the addresses, from index i with the
\* hosts acc built so far.
RECURSIVE ctorLoop(_, _, _)
ctorLoop(addrs, i, acc) ==
    IF i > Len(addrs) THEN [err |-> Nil, hosts |-> acc]
    ELSE LET u == urlString(addrs[i]) IN
         IF u = ErrParse THEN [err |-> ErrParse, hosts |-> <<>>]
         ELSE IF u \in Range(acc) THEN [err |-> ErrDuplicateAddresses, hosts |-> <<>>]
         ELSE ctorLoop(addrs, i + 1, Append(acc, u))

\* A constructor that forgets the duplicate check.
RECURSIVE ctorLoopNoDup(_, _, _)
ctorLoopNoDup(addrs, i, acc) ==
    IF i > Len(addrs) THEN [err |-> Nil, hosts |-> acc]
    ELSE LET u == urlString(addrs[i]) IN
         IF u = ErrParse THEN [err |-> ErrParse, hosts |-> <<>>]
         ELSE ctorLoopNoDup(addrs, i + 1, Append(acc, u))

NewRandomBalancerResult_NoDup(addrs) ==
    LET r == ctorLoopNoDup(addrs, 1, <<>>) IN
    IF r.err # Nil THEN r
    ELSE IF Len(r.hosts) = 0 THEN [err |-> ErrNoHostsAvailable, hosts |-> <<>>]
    ELSE r

NewRandomBalancerResult(addrs) ==
    LET r == ctorLoop(addrs, 1, <<>>) IN
    IF r.err # Nil THEN r
    ELSE IF Len(r.hosts) = 0 THEN [err |-> ErrNoHostsAvailable, hosts |-> <<>>]
    ELSE r

\* sync.RWMutex: a reader enters unless a writer is waiting; a writer enters
\* when no reader is inside. A writer's critical section is one step.
CanRLock == mu.q = {}
\* A lock whose writers do not wait for the readers inside.
CanLock_NoWait(t) == t \in mu.q
CanLock(t) == t \in mu.q /\ mu.r = {}
RLocked(t) == [mu EXCEPT !.r = @ \cup {t}]
RUnlocked(t) == [mu EXCEPT !.r = @ \ {t}]
LockCalled(t) == [mu EXCEPT !.q = @ \cup {t}]
Unlocked(t) == [mu EXCEPT !.q = @ \ {t}]

Constructed == ctorErr = Nil

\* The healthy hosts, in pool order (the loop of Next and of Healthy).
RECURSIVE filterHosts(_, _)
filterHosts(i, want) ==
    IF i > Len(hosts) THEN <<>>
    ELSE IF healthy[i] = want THEN <<hosts[i]>> \o filterHosts(i + 1, want)
    ELSE filterHosts(i + 1, want)

HealthyHosts == filterHosts(1, TRUE)
BadHosts == filterHosts(1, FALSE)

\* rand.IntN(len(healthy)) picked idx.
NextResult_First(hl, idx) ==
    IF Len(hl) = 0 THEN [url |-> NoURL, err |-> ErrNoHostsAvailable]
    ELSE [url |-> hl[1], err |-> Nil]

NextResult(hl, idx) ==
    IF Len(hl) = 0 THEN [url |-> NoURL, err |-> ErrNoHostsAvailable]
    ELSE [url |-> hl[idx + 1], err |-> Nil]

NoRet == [url |-> NoURL, err |-> Nil]

\* The loop of MarkBad: the host whose URL string equals u becomes unhealthy.
MarkBadApply_Noop(u) == healthy
\* A MarkBad that marks every host.
MarkBadApply_All(u) == [i \in DOMAIN healthy |-> FALSE]

MarkBadApply(u) ==
    [i \in DOMAIN healthy |-> IF hosts[i] = u THEN FALSE ELSE healthy[i]]

\* The loop of markGoodHosts: the host whose URL is u becomes healthy.
MarkGoodApply(u) ==
    [i \in DOMAIN healthy |-> IF hosts[i] = u THEN TRUE ELSE healthy[i]]


\* NewRandomBalancer(addresses, chckFn, d): rb.ch and rb.done are left nil.
NewRandomBalancer ==
    /\ ctorErr = NotCalled
    /\ \E addrs \in AddrLists :
        LET r == NewRandomBalancerResult(addrs) IN
        /\ addresses' = addrs
        /\ ctorErr' = r.err
        /\ hosts' = r.hosts
        /\ healthy' = [i \in 1..Len(r.hosts) |-> TRUE]
        /\ wg' = IF r.err = Nil THEN 2 ELSE 0
        /\ probPC' = IF r.err = Nil THEN "start" ELSE "none"
        /\ promPC' = IF r.err = Nil THEN "start" ELSE "none"
    /\ UNCHANGED <<mu, ch, done, probIdx, promU, callPC, callArg, callRet, closePC,
                   crashed, hostUp, quarantined>>
    /\ UNCHANGED <<callList, cliVars, stmtVars, wireVars, hasVars, cntVars>>

\* Next(): the call, before rb.mu.RLock() is granted.
Next_call(c) ==
    /\ Constructed /\ ~crashed
    /\ callPC[c] = "idle"
    /\ callPC' = [callPC EXCEPT ![c] = "next_rlock"]
    /\ UNCHANGED <<addresses, ctorErr, hosts, healthy, mu, ch, done, wg, probPC,
                   probIdx, promPC, promU, callArg, callRet, closePC, crashed, hostUp,
                   quarantined>>
    /\ UNCHANGED <<callList, cliVars, stmtVars, wireVars, hasVars, cntVars>>

\* Next(): RLock granted, the healthy hosts collected, one picked at random.
Next_body(c) ==
    /\ ~crashed
    /\ callPC[c] = "next_rlock"
    /\ CanRLock
    /\ mu' = RLocked(c)
    /\ LET hl == HealthyHosts IN
       \E idx \in 0..(IF Len(hl) = 0 THEN 0 ELSE Len(hl) - 1) :
           callRet' = [callRet EXCEPT ![c] = NextResult(hl, idx)]
    /\ callPC' = [callPC EXCEPT ![c] = "next_ret"]
    /\ UNCHANGED <<addresses, ctorErr, hosts, healthy, ch, done, wg, probPC, probIdx,
                   promPC, promU, callArg, closePC, crashed, hostUp, quarantined>>
    /\ UNCHANGED <<callList, cliVars, stmtVars, wireVars, hasVars, cntVars>>

\* Next(): the deferred RUnlock and the return.
Next_return(c) ==
    /\ ~crashed
    /\ callPC[c] = "next_ret"
    /\ mu' = RUnlocked(c)
    /\ callPC' = [callPC EXCEPT ![c] = "idle"]
    /\ callRet' = [callRet EXCEPT ![c] = NoRet]
    /\ UNCHANGED <<addresses, ctorErr, hosts, healthy, ch, done, wg, probPC, probIdx,
                   promPC, promU, callArg, closePC, crashed, hostUp, quarantined>>
    /\ UNCHANGED <<callList, cliVars, stmtVars, wireVars, hasVars, cntVars>>

\* MarkBad(u): the call, waiting in rb.mu.Lock().
MarkBad_call(c, u) ==
    /\ Constructed /\ ~crashed
    /\ callPC[c] = "idle"
    /\ callPC' = [callPC EXCEPT ![c] = "markbad_lock"]
    /\ callArg' = [callArg EXCEPT ![c] = u]
    /\ mu' = LockCalled(c)
    /\ UNCHANGED <<addresses, ctorErr, hosts, healthy, ch, done, wg, probPC, probIdx,
                   promPC, promU, callRet, closePC, crashed, hostUp, quarantined>>
    /\ UNCHANGED <<callList, cliVars, stmtVars, wireVars, hasVars, cntVars>>

\* MarkBad(u): Lock granted, the host marked, Unlock, return.
MarkBad_body(c) ==
    /\ ~crashed
    /\ callPC[c] = "markbad_lock"
    /\ CanLock(c)
    /\ healthy' = MarkBadApply(callArg[c])
    /\ quarantined' = [u \in URLs |->
                          IF u = callArg[c] /\ u \in Range(hosts) THEN TRUE
                          ELSE quarantined[u]]
    /\ mu' = Unlocked(c)
    /\ callPC' = [callPC EXCEPT ![c] = "idle"]
    /\ callArg' = [callArg EXCEPT ![c] = NoURL]
    /\ UNCHANGED <<addresses, ctorErr, hosts, ch, done, wg, probPC, probIdx, promPC,
                   promU, callRet, closePC, crashed, hostUp>>
    /\ UNCHANGED <<callList, cliVars, stmtVars, wireVars, hasVars, cntVars>>

\* The checkBadHosts goroutine. A send on the nil rb.ch and a receive from the
\* nil rb.done never complete.
checkBadHosts ==
    /\ ~crashed
    /\ \/ /\ probPC = "start"
          /\ probPC' = "select"
          /\ UNCHANGED <<probIdx, mu, wg, promPC, promU, quarantined>>
       \/ /\ probPC = "select"                      \* case <-ticker.C
          /\ probPC' = "rlock"
          /\ UNCHANGED <<probIdx, mu, wg, promPC, promU, quarantined>>
       \/ /\ probPC = "select"                      \* case <-rb.done
          /\ done = "closed"
          /\ probPC' = "exited"
          /\ wg' = wg - 1
          /\ UNCHANGED <<probIdx, mu, promPC, promU, quarantined>>
       \/ /\ probPC = "rlock"                       \* rb.mu.RLock()
          /\ CanRLock
          /\ mu' = RLocked("prober")
          /\ probIdx' = 1
          /\ probPC' = "loop"
          /\ UNCHANGED <<wg, promPC, promU, quarantined>>
       \/ /\ probPC = "loop"                        \* range exhausted: RUnlock
          /\ probIdx > Len(hosts)
          /\ mu' = RUnlocked("prober")
          /\ probPC' = "select"
          /\ UNCHANGED <<probIdx, wg, promPC, promU, quarantined>>
       \/ /\ probPC = "loop"                        \* if !host.Healthy
          /\ probIdx <= Len(hosts)
          /\ IF healthy[probIdx]
             THEN probIdx' = probIdx + 1 /\ probPC' = "loop"
             ELSE probIdx' = probIdx /\ probPC' = "chk"
          /\ UNCHANGED <<mu, wg, promPC, promU, quarantined>>
       \/ /\ probPC = "chk"                         \* ok := rb.chckFn(host.URL)
          /\ IF hostUp[hosts[probIdx]]
             THEN /\ probPC' = "send"
                  /\ probIdx' = probIdx
                  /\ quarantined' = [quarantined EXCEPT ![hosts[probIdx]] = FALSE]
             ELSE /\ probPC' = "loop"
                  /\ probIdx' = probIdx + 1
                  /\ UNCHANGED quarantined
          /\ UNCHANGED <<mu, wg, promPC, promU>>
       \/ /\ probPC = "send"                        \* rb.ch <- host.URL
          /\ ch # NilChan
          /\ promPC = "select"
          /\ promU' = hosts[probIdx]
          /\ promPC' = "lockcall"
          /\ probIdx' = probIdx + 1
          /\ probPC' = "loop"
          /\ UNCHANGED <<mu, wg, quarantined>>
    /\ UNCHANGED <<addresses, ctorErr, hosts, healthy, ch, done, callPC, callArg,
                   callRet, closePC, crashed, hostUp>>
    /\ UNCHANGED <<callList, cliVars, stmtVars, wireVars, hasVars, cntVars>>

\* The markGoodHosts goroutine. Its select has no case for rb.done; the
\* receive from rb.ch is the hand-off modelled in checkBadHosts.
markGoodHosts ==
    /\ ~crashed
    /\ \/ /\ promPC = "start"
          /\ promPC' = "select"
          /\ UNCHANGED <<mu, healthy, promU>>
       \/ /\ promPC = "lockcall"                    \* rb.mu.Lock()
          /\ mu' = LockCalled("promoter")
          /\ promPC' = "lock"
          /\ UNCHANGED <<healthy, promU>>
       \/ /\ promPC = "lock"                        \* granted: mark, Unlock
          /\ CanLock("promoter")
          /\ healthy' = MarkGoodApply(promU)
          /\ mu' = Unlocked("promoter")
          /\ promU' = NoURL
          /\ promPC' = "select"
    /\ UNCHANGED <<addresses, ctorErr, hosts, ch, done, wg, probPC, probIdx, callPC,
                   callArg, callRet, closePC, crashed, hostUp, quarantined>>
    /\ UNCHANGED <<callList, cliVars, stmtVars, wireVars, hasVars, cntVars>>

\* Close(): close(rb.done) panics on the nil channel; otherwise rb.wg.Wait().
Close ==
    /\ Constructed /\ ~crashed
    /\ \/ /\ closePC = "idle"
          /\ closePC' = "called"
          /\ UNCHANGED <<done, crashed>>
       \/ /\ closePC = "called"                     \* close(rb.done)
          /\ IF done = NilChan
             THEN crashed' = TRUE /\ closePC' = "panicked" /\ UNCHANGED done
             ELSE done' = "closed" /\ closePC' = "wait" /\ UNCHANGED crashed
       \/ /\ closePC = "wait"                       \* rb.wg.Wait()
          /\ wg = 0
          /\ closePC' = "returned"
          /\ UNCHANGED <<done, crashed>>
    /\ UNCHANGED <<addresses, ctorErr, hosts, healthy, mu, ch, wg, probPC, probIdx,
                   promPC, promU, callPC, callArg, callRet, hostUp, quarantined>>
    /\ UNCHANGED <<callList, cliVars, stmtVars, wireVars, hasVars, cntVars>>

\* Environment: a host of the pool goes down or comes back.
HostFlip(u) ==
    /\ Constructed /\ ~crashed
    /\ u \in Range(hosts)
    /\ hostUp' = [hostUp EXCEPT ![u] = ~@]
    /\ UNCHANGED <<addresses, ctorErr, hosts, healthy, mu, ch, done, wg, probPC,
                   probIdx, promPC, promU, callPC, callArg, callRet, closePC, crashed,
                   quarantined>>
    /\ UNCHANGED <<callList, cliVars, stmtVars, wireVars, hasVars, cntVars>>

BalNext ==
    \/ NewRandomBalancer
    \/ \E c \in Callers : Next_call(c)
    \/ \E c \in Callers : Next_body(c)
    \/ \E c \in Callers : Next_return(c)
    \/ \E c \in Callers : \E u \in URLs \cup {UnknownURL} : MarkBad_call(c, u)
    \/ \E c \in Callers : MarkBad_body(c)
    \/ checkBadHosts
    \/ markGoodHosts
    \/ Close
    \/ \E u \in URLs : HostFlip(u)

\* Healthy(): the call, before rb.mu.RLock() is granted.
Healthy_call(c) ==
    /\ Constructed /\ ~crashed
    /\ callPC[c] = "idle"
    /\ callPC' = [callPC EXCEPT ![c] = "healthy_rlock"]
    /\ UNCHANGED <<addresses, ctorErr, hosts, healthy, mu, ch, done, wg, probPC,
                   probIdx, promPC, promU, callArg, callRet, closePC, crashed, hostUp,
                   quarantined, callList>>
    /\ UNCHANGED <<cliVars, stmtVars, wireVars, hasVars, cntVars>>

\* Healthy(): RLock granted, the healthy hosts collected.
Healthy_body(c) ==
    /\ ~crashed
    /\ callPC[c] = "healthy_rlock"
    /\ CanRLock
    /\ mu' = RLocked(c)
    /\ callList' = [callList EXCEPT ![c] = HealthyHosts]
    /\ callPC' = [callPC EXCEPT ![c] = "healthy_ret"]
    /\ UNCHANGED <<addresses, ctorErr, hosts, healthy, ch, done, wg, probPC, probIdx,
                   promPC, promU, callArg, callRet, closePC, crashed, hostUp,
                   quarantined>>
    /\ UNCHANGED <<cliVars, stmtVars, wireVars, hasVars, cntVars>>

\* Bad(): the call, before rb.mu.RLock() is granted.
Bad_call(c) ==
    /\ Constructed /\ ~crashed
    /\ callPC[c] = "idle"
    /\ callPC' = [callPC EXCEPT ![c] = "bad_rlock"]
    /\ UNCHANGED <<addresses, ctorErr, hosts, healthy, mu, ch, done, wg, probPC,
                   probIdx, promPC, promU, callArg, callRet, closePC, crashed, hostUp,
                   quarantined, callList>>
    /\ UNCHANGED <<cliVars, stmtVars, wireVars, hasVars, cntVars>>

\* Bad(): RLock granted, the unhealthy hosts collected.
Bad_body(c) ==
    /\ ~crashed
    /\ callPC[c] = "bad_rlock"
    /\ CanRLock
    /\ mu' = RLocked(c)
    /\ callList' = [callList EXCEPT ![c] = BadHosts]
    /\ callPC' = [callPC EXCEPT ![c] = "bad_ret"]
    /\ UNCHANGED <<addresses, ctorErr, hosts, healthy, ch, done, wg, probPC, probIdx,
                   promPC, promU, callArg, callRet, closePC, crashed, hostUp,
                   quarantined>>
    /\ UNCHANGED <<cliVars, stmtVars, wireVars, hasVars, cntVars>>

\* Healthy() and Bad(): the deferred RUnlock and the return.
Snapshot_return(c) ==
    /\ ~crashed
    /\ callPC[c] \in {"healthy_ret", "bad_ret"}
    /\ mu' = RUnlocked(c)
    /\ callPC' = [callPC EXCEPT ![c] = "idle"]
    /\ callList' = [callList EXCEPT ![c] = <<>>]
    /\ UNCHANGED <<addresses, ctorErr, hosts, healthy, ch, done, wg, probPC, probIdx,
                   promPC, promU, callArg, callRet, closePC, crashed, hostUp,
                   quarantined>>
    /\ UNCHANGED <<cliVars, stmtVars, wireVars, hasVars, cntVars>>

\* The selector with callers that also take the snapshots Healthy() and Bad().
\* Close is left to BalSpec: it ends the process before it touches the pool.
PoolNext ==
    \/ NewRandomBalancer
    \/ \E c \in Callers : Next_call(c)
    \/ \E c \in Callers : Next_body(c)
    \/ \E c \in Callers : Next_return(c)
    \/ \E c \in Callers : \E u \in URLs \cup {UnknownURL} : MarkBad_call(c, u)
    \/ \E c \in Callers : MarkBad_body(c)
    \/ checkBadHosts
    \/ markGoodHosts
    \/ \E u \in URLs : HostFlip(u)
    \/ \E c \in Callers : Healthy_call(c)
    \/ \E c \in Callers : Healthy_body(c)
    \/ \E c \in Callers : Bad_call(c)
    \/ \E c \in Callers : Bad_body(c)
    \/ \E c \in Callers : Snapshot_return(c)

\* ----------------------------------------------------------------- client
\* The public operations that send a request.
JSONOps == {"Execute", "Query", "Request"}
RawOps == {"Status", "Expvar", "Nodes"}
StreamOps == {"Load", "Boot"}
ReqOps == JSONOps \cup RawOps \cup StreamOps \cup {"Backup", "Ready"}

\* Strings are sequences of characters. The argument pairs SetBasicAuth is
\* called with: user names hold no colon (RFC 7617), a password may.
EmptyStr == <<>>
NoAuth == <<EmptyStr, EmptyStr>>
AuthArgs == {NoAuth, <<<<"u", "1">>, <<"p", "1">>>>, <<EmptyStr, <<"p", ":", "2">>>>}

\* The Authorization header doRequest sets: "Basic " + base64(user + ":" + pass).
\* base64 is one-to-one, so the header is modelled by the text it encodes; a
\* request without the header has NoHeader.
NoHeader == <<>>
basicAuthHeader(u, p) == u \o <<":">> \o p

\* The server's reading of the header: the text is cut at its first colon.
parseBasicAuth(h) ==
    LET i == CHOOSE j \in DOMAIN h : h[j] = ":" /\ \A k \in 1..(j - 1) : h[k] # ":"
    IN <<SubSeq(h, 1, i - 1), SubSeq(h, i + 1, Len(h))>>

\* The HTTP status codes the server answers with, and http.StatusOK.
StatusCodes == {200, 204, 500}
StatusOK == 200

\* The statement-level error strings of a result ("" is no error), and the
\* bodies a server sends: one that does not decode, and one per sequence of
\* per-statement results.
ErrMsgs == {"", "x", "y"}
ErrSeqs == UNION {[1..n -> ErrMsgs] : n \in 0..MaxResults}
GarbageBody == [json |-> FALSE, errs |-> <<>>]
JSONBodies == {[json |-> TRUE, errs |-> e] : e \in ErrSeqs}
BodiesFor(op) == IF op \in JSONOps THEN {GarbageBody} \cup JSONBodies ELSE {GarbageBody}
NoBody == [json |-> FALSE, errs |-> <<"no body">>]

\* What c.httpClient.Do and the reading of the body produce: a transport
\* error, a response whose body cannot be read, or a response.
Outcome(kind, status, body) == [kind |-> kind, status |-> status, body |-> body]
NoOutcome == Outcome("none", 0, NoBody)
OutcomesFor(op) ==
    {Outcome("transport", 0, NoBody)}
        \cup {Outcome("readerr", st, NoBody) : st \in StatusCodes}
        \cup {Outcome("resp", st, b) : st \in StatusCodes, b \in BodiesFor(op)}

\* The errors an operation returns.
Err(kind, code, body, idx, msg) ==
    [kind |-> kind, code |-> code, body |-> body, idx |-> idx, msg |-> msg]
NoErr == Err("nil", 0, NoBody, -1, "")
TransportErr == Err("transport", 0, NoBody, -1, "")
ReadErr == Err("read", 0, NoBody, -1, "")
InputErr == Err("input", 0, NoBody, -1, "")
DecodeErr == Err("decode", 0, NoBody, -1, "")
\* fmt.Errorf("unexpected status code: %d, body: %s", code, body)
StatusBodyErr(code, body) == Err("status", code, body, -1, "")
\* fmt.Errorf("unexpected status code: %d", code)
StatusErr(code) == Err("status", code, NoBody, -1, "")
\* fmt.Errorf("statement %d: %s", i, msg)
StmtErr(i, msg) == Err("statement", 0, NoBody, i, msg)

Ret(resp, err) == [resp |-> resp, err |-> err]
NoRetVal == Ret(NoBody, NoErr)

\* HasError of a decoded response: the first result whose Error is set.
RECURSIVE hasErrorFrom(_, _)
hasErrorFrom(errs, i) ==
    IF i > Len(errs) THEN [found |-> FALSE, idx |-> -1, msg |-> ""]
    ELSE IF errs[i] # "" THEN [found |-> TRUE, idx |-> i - 1, msg |-> errs[i]]
    ELSE hasErrorFrom(errs, i + 1)

\* A HasError that keeps looking and reports the last failing result.
RECURSIVE hasErrorLast(_, _)
hasErrorLast(errs, i) ==
    IF i < 1 THEN [found |-> FALSE, idx |-> -1, msg |-> ""]
    ELSE IF errs[i] # "" THEN [found |-> TRUE, idx |-> i - 1, msg |-> errs[i]]
    ELSE hasErrorLast(errs, i - 1)

HasError_Last(errs) == hasErrorLast(errs, Len(errs))

HasError(errs) == hasErrorFrom(errs, 1)

\* An Execute, Query and Request that, with promotion disabled, hand a body
\* that does not decode to the caller without an error.
jsonOpResult_LenientDecode(out, promote) ==
    IF out.kind = "transport" THEN Ret(NoBody, TransportErr)
    ELSE IF out.kind = "readerr" THEN Ret(NoBody, ReadErr)
    ELSE IF out.status # StatusOK THEN Ret(NoBody, StatusBodyErr(out.status, out.body))
    ELSE IF ~out.body.json THEN Ret(IF promote THEN NoBody ELSE out.body,
                                    IF promote THEN DecodeErr ELSE NoErr)
    ELSE LET h == HasError(out.body.errs) IN
         Ret(out.body, IF promote /\ h.found THEN StmtErr(h.idx, h.msg) ELSE NoErr)

\* An Execute, Query and Request that return a nil response with the promoted
\* error.
jsonOpResult_ErrorOnly(out, promote) ==
    IF out.kind = "transport" THEN Ret(NoBody, TransportErr)
    ELSE IF out.kind = "readerr" THEN Ret(NoBody, ReadErr)
    ELSE IF out.status # StatusOK THEN Ret(NoBody, StatusBodyErr(out.status, out.body))
    ELSE IF ~out.body.json THEN Ret(NoBody, DecodeErr)
    ELSE LET h == HasError(out.body.errs) IN
         IF promote /\ h.found THEN Ret(NoBody, StmtErr(h.idx, h.msg))
         ELSE Ret(out.body, NoErr)

\* Execute, Query and Request after doJSONPostRequest returned.
jsonOpResult(out, promote) ==
    IF out.kind = "transport" THEN Ret(NoBody, TransportErr)
    ELSE IF out.kind = "readerr" THEN Ret(NoBody, ReadErr)
    ELSE IF out.status # StatusOK THEN Ret(NoBody, StatusBodyErr(out.status, out.body))
    ELSE IF ~out.body.json THEN Ret(NoBody, DecodeErr)
    ELSE LET h == HasError(out.body.errs) IN
         Ret(out.body, IF promote /\ h.found THEN StmtErr(h.idx, h.msg) ELSE NoErr)

\* Backup after doGetRequest returned: the body is not read.
backupResult(out) ==
    IF out.kind = "transport" THEN Ret(NoBody, TransportErr)
    ELSE IF out.status # StatusOK THEN Ret(NoBody, StatusErr(out.status))
    ELSE Ret(out.body, NoErr)

\* Load and Boot: the response is dropped, only doRequest's error is returned.
streamOpResult(out) ==
    IF out.kind = "transport" THEN Ret(NoBody, TransportErr)
    ELSE Ret(NoBody, NoErr)

\* Status, Expvar and Nodes: the body is read and returned, whatever the status.
rawOpResult(out) ==
    IF out.kind = "transport" THEN Ret(NoBody, TransportErr)
    ELSE IF out.kind = "readerr" THEN Ret(NoBody, ReadErr)
    ELSE Ret(out.body, NoErr)

\* Ready: the body is returned unread, whatever the status.
readyResult(out) ==
    IF out.kind = "transport" THEN Ret(NoBody, TransportErr)
    ELSE Ret(out.body, NoErr)

opResult(op, out, promote) ==
    IF op \in JSONOps THEN jsonOpResult(out, promote)
    ELSE IF op = "Backup" THEN backupResult(out)
    ELSE IF op \in StreamOps THEN streamOpResult(out)
    ELSE IF op \in RawOps THEN rawOpResult(out)
    ELSE readyResult(out)

\* What becomes of resp.Body by the time the operation returns: there is no
\* response ("none"), the operation closed it ("closed"), it returned it to the
\* caller ("caller"), or it did neither ("open"). Execute, Status, Expvar and
\* Nodes defer resp.Body.Close(); Query and Request have no Close; Load and
\* Boot drop the response; Backup and Ready return the body, and Backup
\* returns (nil, error) on a status other than 200.
bodyAtReturn(op, out) ==
    IF out.kind = "transport" THEN "none"
    ELSE IF op = "Execute" \/ op \in RawOps THEN "closed"
    ELSE IF op = "Ready" THEN "caller"
    ELSE IF op = "Backup" /\ out.status = StatusOK THEN "caller"
    ELSE "open"

\* A doRequest that sends the request again after a transport error.
afterDo_Retry(out) == IF out.kind = "transport" /\ reqSent = 0 THEN "do" ELSE "done"

\* doRequest after c.httpClient.Do(req): it returns what Do produced, there is
\* no loop around Do and none around doRequest in the operations.
afterDo(out) == "done"

\* doRequest: whether Basic Auth is configured.
authConfigured_Both(u, p) == u # EmptyStr /\ p # EmptyStr

authConfigured(u, p) == u # EmptyStr \/ p # EmptyStr

\* A request is in flight from the call until the operation has its response.
InFlight == reqPC \notin {"idle", "done"}


\* SetBasicAuth(username, password): c.basicAuthUser = username.
SetBasicAuth_user(a) ==
    /\ cfgPC = "idle"
    /\ cfgPC' = "setpass"
    /\ cfgArg' = a
    /\ basicAuthUser' = a[1]
    /\ authPairs' = authPairs \cup {a}
    /\ lastAuth' = a
    /\ raced' = (raced \/ InFlight)
    /\ UNCHANGED <<basicAuthPass, promoteErrors, reqPC, reqOp, reqTmpU, reqHdr, reqOut,
                   reqRet, lastPromote>>
    /\ UNCHANGED <<reqSent, respBody>>
    /\ UNCHANGED <<balVars, stmtVars, wireVars, hasVars, cntVars>>

\* SetBasicAuth(username, password): c.basicAuthPass = password, and return.
SetBasicAuth_pass ==
    /\ cfgPC = "setpass"
    /\ cfgPC' = "idle"
    /\ basicAuthPass' = cfgArg[2]
    /\ cfgArg' = NoAuth
    /\ raced' = (raced \/ InFlight)
    /\ UNCHANGED <<basicAuthUser, promoteErrors, reqPC, reqOp, reqTmpU, reqHdr, reqOut,
                   reqRet, authPairs, lastAuth, lastPromote>>
    /\ UNCHANGED <<reqSent, respBody>>
    /\ UNCHANGED <<balVars, stmtVars, wireVars, hasVars, cntVars>>

\* PromoteErrors(b): c.promoteErrors.Store(b).
PromoteErrors(b) ==
    /\ cfgPC = "idle"
    /\ promoteErrors' = b
    /\ lastPromote' = b
    /\ UNCHANGED <<basicAuthUser, basicAuthPass, cfgPC, cfgArg, reqPC, reqOp, reqTmpU,
                   reqHdr, reqOut, reqRet, authPairs, lastAuth, raced>>
    /\ UNCHANGED <<reqSent, respBody>>
    /\ UNCHANGED <<balVars, stmtVars, wireVars, hasVars, cntVars>>

\* A public operation is called and reaches doRequest. Load first reads the
\* head of its input, and returns the read error without a request.
Call(op) ==
    /\ reqPC = "idle"
    /\ reqOp' = op
    /\ raced' = (cfgPC # "idle")
    /\ \E inputOK \in BOOLEAN :
          IF op = "Load" /\ ~inputOK
          THEN reqPC' = "done" /\ reqRet' = Ret(NoBody, InputErr)
          ELSE reqPC' = "cond_user" /\ reqRet' = NoRetVal
    /\ reqSent' = 0
    /\ respBody' = "none"
    /\ UNCHANGED <<basicAuthUser, basicAuthPass, promoteErrors, cfgPC, cfgArg, reqTmpU,
                   reqHdr, reqOut, authPairs, lastAuth, lastPromote>>
    /\ UNCHANGED <<balVars, stmtVars, wireVars, hasVars, cntVars>>

\* doRequest: if c.basicAuthUser != "" || c.basicAuthPass != "", then the two
\* fields are read again for the header. Every read is a step of its own:
\* no lock is held.
doRequest_auth ==
    /\ \/ /\ reqPC = "cond_user"
          /\ reqPC' = IF authConfigured(basicAuthUser, EmptyStr) THEN "fmt_user" ELSE "cond_pass"
          /\ UNCHANGED <<reqTmpU, reqHdr>>
       \/ /\ reqPC = "cond_pass"
          /\ IF authConfigured(EmptyStr, basicAuthPass)
             THEN reqPC' = "fmt_user" /\ UNCHANGED reqHdr
             ELSE reqPC' = "do" /\ reqHdr' = NoHeader
          /\ UNCHANGED reqTmpU
       \/ /\ reqPC = "fmt_user"
          /\ reqTmpU' = basicAuthUser
          /\ reqPC' = "fmt_pass"
          /\ UNCHANGED reqHdr
       \/ /\ reqPC = "fmt_pass"
          /\ reqHdr' = basicAuthHeader(reqTmpU, basicAuthPass)
          /\ reqTmpU' = EmptyStr
          /\ reqPC' = "do"
    /\ UNCHANGED <<basicAuthUser, basicAuthPass, promoteErrors, cfgPC, cfgArg, reqOp,
                   reqOut, reqRet, authPairs, lastAuth, lastPromote, raced>>
    /\ UNCHANGED <<reqSent, respBody>>
    /\ UNCHANGED <<balVars, stmtVars, wireVars, hasVars, cntVars>>

\* c.httpClient.Do(req) and the rest of the operation, up to its return value.
Exchange ==
    /\ reqPC = "do"
    /\ \E out \in OutcomesFor(reqOp) :
          /\ reqOut' = out
          /\ reqRet' = opResult(reqOp, out, promoteErrors)
          /\ respBody' = bodyAtReturn(reqOp, out)
          /\ reqPC' = afterDo(out)
    /\ reqSent' = reqSent + 1
    /\ reqHdr' = NoHeader
    /\ UNCHANGED <<basicAuthUser, basicAuthPass, promoteErrors, cfgPC, cfgArg, reqOp,
                   reqTmpU, authPairs, lastAuth, lastPromote, raced>>
    /\ UNCHANGED <<balVars, stmtVars, wireVars, hasVars, cntVars>>

\* The operation returns to its caller.
Return ==
    /\ reqPC = "done"
    /\ reqPC' = "idle"
    /\ reqOp' = "none"
    /\ reqOut' = NoOutcome
    /\ reqRet' = NoRetVal
    /\ raced' = FALSE
    /\ reqSent' = 0
    /\ respBody' = "none"
    /\ UNCHANGED <<basicAuthUser, basicAuthPass, promoteErrors, cfgPC, cfgArg, reqTmpU,
                   reqHdr, authPairs, lastAuth, lastPromote>>
    /\ UNCHANGED <<balVars, stmtVars, wireVars, hasVars, cntVars>>

CliNext ==
    \/ \E a \in AuthArgs : SetBasicAuth_user(a)
    \/ SetBasicAuth_pass
    \/ \E b \in BOOLEAN : PromoteErrors(b)
    \/ \E op \in ReqOps : Call(op)
    \/ doRequest_auth
    \/ Exchange
    \/ Return

\* ------------------------------------------------------- statement codec
SQLTexts == {"", "SELECT 1", "INSERT"}
ParamValues == {"v1", "v2"}
ParamNames == {"n1", "n2"}

PositionalLists == UNION {[1..n -> ParamValues] : n \in 0..MaxParams}
NamedMaps == UNION {[d -> ParamValues] : d \in SUBSET ParamNames}

Statement(sql, pos, named) ==
    [SQL |-> sql, PositionalParams |-> pos, NamedParams |-> named]
Statements ==
    {Statement(q, p, n) : q \in SQLTexts, p \in PositionalLists, n \in NamedMaps}
NoNamed == [n \in {} |-> "v1"]
ZeroStatement == Statement("", <<>>, NoNamed)

\* JSON values: a string, an array of values, an object of values.
JString(s) == [k |-> "string", s |-> s, a |-> <<>>, o |-> <<>>]
JArray(a) == [k |-> "array", s |-> "", a |-> a, o |-> <<>>]
JObject(o) == [k |-> "object", s |-> "", a |-> <<>>, o |-> o]
JNull == [k |-> "null", s |-> "", a |-> <<>>, o |-> <<>>]

\* An encoder that always emits the array form, parameters or not.
MarshalJSON_AlwaysArray(s) ==
    IF DOMAIN s.NamedParams # {}
    THEN JArray(<<JString(s.SQL),
                  JObject([n \in DOMAIN s.NamedParams |-> JString(s.NamedParams[n])])>>)
    ELSE JArray(<<JString(s.SQL)>>
                \o [i \in 1..Len(s.PositionalParams) |-> JString(s.PositionalParams[i])])

\* SQLStatement.MarshalJSON
MarshalJSON(s) ==
    IF DOMAIN s.NamedParams # {}
    THEN JArray(<<JString(s.SQL),
                  JObject([n \in DOMAIN s.NamedParams |-> JString(s.NamedParams[n])])>>)
    ELSE IF Len(s.PositionalParams) > 0
    THEN JArray(<<JString(s.SQL)>>
                \o [i \in 1..Len(s.PositionalParams) |-> JString(s.PositionalParams[i])])
    ELSE JString(s.SQL)

ErrUnmarshalType == "json: cannot unmarshal into Go value of type string"

\* SQLStatement.UnmarshalJSON into the statement s: json.Unmarshal(data, &sql)
\* accepts a JSON string only.
UnmarshalJSON(s, data) ==
    IF data.k = "string" THEN [err |-> Nil, s |-> [s EXCEPT !.SQL = data.s]]
    ELSE [err |-> ErrUnmarshalType, s |-> s]


\* The sequences of statements callers send.
StmtElems ==
    {Statement("SELECT 1", <<>>, NoNamed), Statement("INSERT", <<>>, NoNamed),
     Statement("INSERT", <<"v1">>, NoNamed), Statement("INSERT", <<"v1", "v2">>, NoNamed),
     Statement("INSERT", <<>>, [n \in {"n1"} |-> "v1"])}
StmtSeqs == UNION {[1..n -> StmtElems] : n \in 0..MaxStmts}

\* SQLStatements.MarshalJSON: json.Marshal([]SQLStatement(sts)), the array of
\* the statements' own encodings.
SQLStatements_MarshalJSON(sts) == JArray([i \in 1..Len(sts) |-> MarshalJSON(sts[i])])

\* json.Unmarshal(data, &stmts) into a []SQLStatement: each element goes
\* through SQLStatement.UnmarshalJSON, and the first error ends the decoding.
RECURSIVE unmarshalElems(_, _, _)
unmarshalElems(a, i, acc) ==
    IF i > Len(a) THEN [err |-> Nil, stmts |-> acc]
    ELSE LET r == UnmarshalJSON(ZeroStatement, a[i]) IN
         IF r.err # Nil THEN [err |-> r.err, stmts |-> acc]
         ELSE unmarshalElems(a, i + 1, Append(acc, r.s))

unmarshalSlice(data) ==
    IF data.k = "array" THEN unmarshalElems(data.a, 1, <<>>)
    ELSE [err |-> ErrUnmarshalType, stmts |-> <<>>]

\* SQLStatements.UnmarshalJSON has a value receiver: "sts = SQLStatements(stmts)"
\* assigns the method's copy, and the caller's value sts stays as it was.
SQLStatements_UnmarshalJSON(sts, data) ==
    LET r == unmarshalSlice(data) IN
    [err |-> r.err, sts |-> sts]

\* data, _ := s.MarshalJSON()
Encode ==
    /\ stPC = "new"
    /\ stJSON' = MarshalJSON(stmt)
    /\ stPC' = "encoded"
    /\ UNCHANGED <<stmt, stDec, stErr, stmts, stsPC, stsJSON, stsDec, stsErr>>
    /\ UNCHANGED <<balVars, cliVars, wireVars, hasVars, cntVars>>

\* var d SQLStatement; err := d.UnmarshalJSON(data)
Decode ==
    /\ stPC = "encoded"
    /\ LET r == UnmarshalJSON(ZeroStatement, stJSON) IN
       /\ stDec' = r.s
       /\ stErr' = r.err
    /\ stPC' = "decoded"
    /\ UNCHANGED <<stmt, stJSON, stmts, stsPC, stsJSON, stsDec, stsErr>>
    /\ UNCHANGED <<balVars, cliVars, wireVars, hasVars, cntVars>>

StmtNext ==
    \/ Encode
    \/ Decode

\* body, err := statements.MarshalJSON()
EncodeAll ==
    /\ stsPC = "new"
    /\ stsJSON' = SQLStatements_MarshalJSON(stmts)
    /\ stsPC' = "encoded"
    /\ UNCHANGED <<stmt, stPC, stJSON, stDec, stErr, stmts, stsDec, stsErr>>
    /\ UNCHANGED <<balVars, cliVars, wireVars, hasVars, cntVars>>

\* var gotStmts SQLStatements; err := json.Unmarshal(body, &gotStmts)
DecodeAll ==
    /\ stsPC = "encoded"
    /\ LET r == SQLStatements_UnmarshalJSON(<<>>, stsJSON) IN
       /\ stsDec' = r.sts
       /\ stsErr' = r.err
    /\ stsPC' = "decoded"
    /\ UNCHANGED <<stmt, stPC, stJSON, stDec, stErr, stmts, stsJSON>>
    /\ UNCHANGED <<balVars, cliVars, wireVars, hasVars, cntVars>>

StmtsNext ==
    \/ EncodeAll
    \/ DecodeAll

\* ------------------------------------------------------- options encoder
\* A Go value of one of the supported kinds: the component its kind names
\* holds it, the others are zero. The zero value of every kind is ZeroV.
ZeroV == [s |-> "", n |-> 0, b |-> FALSE]
StrV(x) == [ZeroV EXCEPT !.s = x]
IntV(x) == [ZeroV EXCEPT !.n = x]
BoolV(x) == [ZeroV EXCEPT !.b = x]

\* A struct field: the text of its `uvalue` tag as the sequence of its
\* comma-separated parts (<<>> is no tag), its kind, its value, and whether it
\* is exported. A time.Duration holds whole seconds.
Field(tag, kind, val, exported) ==
    [tag |-> tag, kind |-> kind, val |-> val, exported |-> exported]
NoTag == <<>>
Tag(name) == <<name>>

\* A value passed as "input any": the untyped nil, or a value of a kind, or a
\* pointer (nil or not) to a value of a kind.
Input(ptr, isnil, kind, fields) ==
    [untyped |-> FALSE, ptr |-> ptr, isnil |-> isnil, kind |-> kind, fields |-> fields]
UntypedNil ==
    [untyped |-> TRUE, ptr |-> FALSE, isnil |-> FALSE, kind |-> "invalid", fields |-> <<>>]

\* url.Values: nil, or a map from key to the list of its values.
NilValues == [isNil |-> TRUE, m |-> <<>>]
Values(m) == [isNil |-> FALSE, m |-> m]
EmptyValues == Values(<<>>)

\* vals.Add(key, value)
Add(vals, key, value) ==
    IF key \in DOMAIN vals.m
    THEN Values([vals.m EXCEPT ![key] = Append(@, value)])
    ELSE Values(vals.m @@ (key :> <<value>>))

SupportedKinds == {"string", "bool", "int", "int64", "uint64", "duration"}

\* The string form MakeURLValues gives a field value: the string itself,
\* strconv.FormatBool, FormatInt and FormatUint in base 10, Duration.String.
strVal(kind, v) ==
    IF kind = "string" THEN v.s
    ELSE IF kind = "bool" THEN (IF v.b THEN "true" ELSE "false")
    ELSE IF kind = "duration" THEN ToString(v.n) \o "s"
    ELSE ToString(v.n)

\* The loop of MakeURLValues over the fields, from field i: the whole tag text
\* is the key.
RECURSIVE fieldsLoop(_, _, _)
fieldsLoop(fields, i, vals) ==
    IF i > Len(fields) THEN vals
    ELSE LET f == fields[i] IN
         IF f.tag = NoTag THEN fieldsLoop(fields, i + 1, vals)
         ELSE IF ~f.exported THEN fieldsLoop(fields, i + 1, vals)
         ELSE IF f.kind \notin SupportedKinds THEN fieldsLoop(fields, i + 1, vals)
         ELSE fieldsLoop(fields, i + 1, Add(vals, f.tag, strVal(f.kind, f.val)))

ErrNotStruct == "input must be a pointer to a struct"

\* An encoder without the check of the kind.
MakeURLValues_NoKindCheck(input) ==
    IF input.untyped THEN [vals |-> EmptyValues, err |-> Nil]
    ELSE IF input.ptr /\ input.isnil THEN [vals |-> EmptyValues, err |-> Nil]
    ELSE [vals |-> fieldsLoop(input.fields, 1, EmptyValues), err |-> Nil]

\* MakeURLValues(input)
MakeURLValues(input) ==
    IF input.untyped THEN [vals |-> EmptyValues, err |-> Nil]
    ELSE IF input.ptr /\ input.isnil THEN [vals |-> EmptyValues, err |-> Nil]
    ELSE IF input.kind # "struct" THEN [vals |-> NilValues, err |-> ErrNotStruct]
    ELSE [vals |-> fieldsLoop(input.fields, 1, EmptyValues), err |-> Nil]

\* The options types of the client, zero-valued.
ZeroField(name, kind) == Field(name, kind, ZeroV, TRUE)
ExecuteOptions ==
    <<ZeroField(Tag("transaction"), "bool"), ZeroField(Tag("pretty"), "bool"),
      ZeroField(Tag("timings"), "bool"), ZeroField(Tag("queue"), "bool"),
      ZeroField(Tag("wait"), "bool"), ZeroField(Tag("timeout"), "duration")>>
QueryOptions ==
    <<ZeroField(Tag("timeout"), "duration"), ZeroField(Tag("pretty"), "bool"),
      ZeroField(Tag("timings"), "bool"), ZeroField(Tag("associative"), "bool"),
      ZeroField(Tag("blob_array"), "bool"), ZeroField(Tag("level"), "string"),
      ZeroField(Tag("linearizable_timeout"), "duration"),
      ZeroField(Tag("freshness"), "duration"), ZeroField(Tag("freshness_strict"), "bool")>>
RequestOptions ==
    <<ZeroField(NoTag, "bool"), ZeroField(NoTag, "string"), ZeroField(NoTag, "bool"),
      ZeroField(NoTag, "bool"), ZeroField(NoTag, "bool"), ZeroField(NoTag, "bool"),
      ZeroField(NoTag, "string"), ZeroField(NoTag, "string"), ZeroField(NoTag, "string"),
      ZeroField(NoTag, "bool")>>
BackupOptions ==
    <<ZeroField(Tag("fmt"), "string"), ZeroField(Tag("vacuum"), "bool"),
      ZeroField(Tag("compress"), "bool"), ZeroField(Tag("noleader"), "bool"),
      ZeroField(Tag("redirect"), "bool")>>
LoadOptions == <<ZeroField(NoTag, "string"), ZeroField(NoTag, "bool")>>

\* The operations that take options: by pointer, or by value.
PtrOptOps == {"Execute", "Query", "Request"}
ValOptOps == {"Backup", "Load"}
OptOps == PtrOptOps \cup ValOptOps

OptionsType(op) ==
    IF op = "Execute" THEN ExecuteOptions
    ELSE IF op = "Query" THEN QueryOptions
    ELSE IF op = "Request" THEN RequestOptions
    ELSE IF op = "Backup" THEN BackupOptions
    ELSE LoadOptions

\* c.executeURL and the like, without the base URL.
FixedURL(op) ==
    IF op = "Execute" THEN "/db/execute"
    ELSE IF op = "Query" THEN "/db/query"
    ELSE IF op = "Request" THEN "/db/request"
    ELSE IF op = "Backup" THEN "/db/backup"
    ELSE "/db/load"

\* The options a caller passes to op: nil, all-default, or with the first
\* field set.
NilOptions(op) == Input(TRUE, TRUE, "struct", OptionsType(op))
ZeroOptions(op) == Input(op \in PtrOptOps, FALSE, "struct", OptionsType(op))
SetOptions(op) ==
    LET t == OptionsType(op)
        v == IF t[1].kind = "bool" THEN BoolV(TRUE)
             ELSE IF t[1].kind = "string" THEN StrV("sql")
             ELSE IntV(5)
    IN Input(op \in PtrOptOps, FALSE, "struct", [t EXCEPT ![1].val = v])
OptionsFor(op) ==
    {ZeroOptions(op), SetOptions(op)} \cup (IF op \in PtrOptOps THEN {NilOptions(op)} ELSE {})

\* The inputs MakeURLValues is called with directly: structs of up to
\* MaxFields fields, by value and by pointer, nil pointers, and values that
\* are no structs.
GenTags == {NoTag, <<"s">>, <<"s", "omitempty">>, <<"t">>}
GenValues ==
    {<<"string", ZeroV>>, <<"string", StrV("hello")>>, <<"bool", ZeroV>>,
     <<"bool", BoolV(TRUE)>>, <<"int", ZeroV>>, <<"int", IntV(-999)>>,
     <<"uint64", IntV(42)>>, <<"duration", ZeroV>>, <<"duration", IntV(5)>>,
     <<"float64", ZeroV>>}
GenFields ==
    {Field(t, kv[1], kv[2], TRUE) : t \in GenTags, kv \in GenValues}
        \cup {Field(<<"t">>, "string", StrV("hello"), FALSE)}
GenStructs == UNION {[1..n -> GenFields] : n \in 0..MaxFields}
GenInputs ==
    {UntypedNil}
        \cup {Input(p, FALSE, "struct", fs) : p \in BOOLEAN, fs \in GenStructs}
        \cup {Input(TRUE, TRUE, "struct", <<fs>>) : fs \in GenFields}
        \cup {Input(p, FALSE, "int", <<>>) : p \in BOOLEAN}
        \cup {Input(TRUE, TRUE, "int", <<>>), Input(TRUE, FALSE, "ptr", <<>>)}

OptCalls ==
    {<<"MakeURLValues", in>> : in \in GenInputs}
        \cup UNION {{<<op, in>> : in \in OptionsFor(op)} : op \in OptOps}

\* fullURL of doRequest: url, then "?" and values.Encode() when values is not
\* nil. Encode is one-to-one on maps and is modelled by the map.
URL(base, q, enc) == [base |-> base, q |-> q, enc |-> enc]
NoFullURL == URL("", FALSE, <<>>)
fullURL(url, values) ==
    IF ~values.isNil THEN URL(url, TRUE, values.m) ELSE URL(url, FALSE, <<>>)

\* queryParams, err := MakeURLValues(opts)
MakeURLValues_call ==
    /\ optPC = "new"
    /\ LET r == MakeURLValues(optIn) IN
       /\ optVals' = r.vals
       /\ optErr' = r.err
    /\ optPC' = "encoded"
    /\ UNCHANGED <<optOp, optIn, optURL>>
    /\ UNCHANGED <<balVars, cliVars, stmtVars, decVars, loadVars, hasVars, cntVars>>

\* The operation goes on to doRequest, which builds fullURL.
doRequest_url ==
    /\ optPC = "encoded"
    /\ optOp \in OptOps
    /\ optErr = Nil
    /\ optURL' = fullURL(FixedURL(optOp), optVals)
    /\ optPC' = "built"
    /\ UNCHANGED <<optOp, optIn, optVals, optErr>>
    /\ UNCHANGED <<balVars, cliVars, stmtVars, decVars, loadVars, hasVars, cntVars>>

OptNext ==
    \/ MakeURLValues_call
    \/ doRequest_url

\* ------------------------------------------------------ response decoder
\* An integer as its sign and the bits of its magnitude, most significant
\* first (int64 does not fit the checker's integers).
MantissaBits == 53
Zeros(n) == [i \in 1..n |-> 0]
Int64(neg, bits) == [neg |-> neg, bits |-> bits]
NoCell == Int64(FALSE, <<>>)
\* 2^k + d, for k >= 2 and d < 4
Pow2Plus(k, d) == <<1>> \o Zeros(k - 2) \o <<d \div 2, d % 2>>
MaxInt64 == [i \in 1..63 |-> 1]
Cells ==
    {Int64(FALSE, <<1>>), Int64(FALSE, Pow2Plus(MantissaBits, 0)),
     Int64(FALSE, Pow2Plus(MantissaBits, 1)), Int64(FALSE, Pow2Plus(MantissaBits, 2)),
     Int64(TRUE, Pow2Plus(MantissaBits, 3)), Int64(FALSE, MaxInt64)}

RECURSIVE incBits(_)
incBits(b) ==
    IF b = <<>> THEN <<1>>
    ELSE IF b[Len(b)] = 0 THEN [b EXCEPT ![Len(b)] = 1]
    ELSE incBits(SubSeq(b, 1, Len(b) - 1)) \o <<0>>

\* A decoder that keeps the number as written (json.Number).
float64Of_Exact(n) == n

\* json.Unmarshal of a number into an "any": the float64 nearest to it, ties
\* to the even mantissa.
float64Of(n) ==
    LET b == n.bits
        l == Len(b)
    IN IF l <= MantissaBits THEN n
       ELSE LET mant == SubSeq(b, 1, MantissaBits)
                rest == SubSeq(b, MantissaBits + 1, l)
                more == \E i \in 2..Len(rest) : rest[i] = 1
                up == rest[1] = 1 /\ (more \/ mant[MantissaBits] = 1)
            IN Int64(n.neg, (IF up THEN incBits(mant) ELSE mant) \o Zeros(l - MantissaBits))

\* An element of "results": the JSON kind of each of its fields ("absent",
\* "array", "object" or "number"), the integer cell its values or rows hold,
\* and its error string.
Elem(columns, types, values, rows, cell, lid, err) ==
    [columns |-> columns, types |-> types, values |-> values, rows |-> rows,
     cell |-> cell, lastInsertID |-> lid, error |-> err]
ColumnarElems ==
    {Elem("array", t, "array", "absent", c, "absent", "") : t \in {"absent", "array"}, c \in Cells}
AssocElems ==
    {Elem("absent", "object", "absent", "array", c, "absent", "") :
        c \in {Int64(FALSE, <<1>>), Int64(FALSE, Pow2Plus(MantissaBits, 1))}}
WriteElem == Elem("absent", "absent", "absent", "absent", NoCell, "number", "")
ErrorElem == Elem("absent", "absent", "absent", "absent", NoCell, "absent", "x")
OddElems ==
    {Elem("absent", "number", "absent", "absent", NoCell, "absent", ""),
     Elem("array", "object", "absent", "absent", NoCell, "absent", ""),
     Elem("number", "absent", "absent", "absent", NoCell, "absent", "")}
Elems == ColumnarElems \cup AssocElems \cup {WriteElem, ErrorElem} \cup OddElems

\* The "results" value of a body: absent, null, a number, or an array.
Results(k, elems) == [k |-> k, elems |-> elems]
ResultsValues ==
    {Results(k, <<>>) : k \in {"absent", "null", "number"}}
        \cup {Results("array", es) : es \in UNION {[1..n -> Elems] : n \in 0..MaxResults}}
Responses == {"Query", "Request"} \X ResultsValues

\* Whether json.Unmarshal can store an element into the struct: a field that
\* is present must have the JSON kind of the struct field; a field the struct
\* does not have is ignored.
fitsQueryResult(e) ==
    /\ e.columns \in {"absent", "array"}
    /\ e.types \in {"absent", "array"}
    /\ e.values \in {"absent", "array"}
fitsQueryResultAssoc(e) ==
    /\ e.types \in {"absent", "object"}
    /\ e.rows \in {"absent", "array"}
fitsRequestResult(e) ==
    /\ e.columns \in {"absent", "array"}
    /\ e.types \in {"absent", "array"}
    /\ e.values \in {"absent", "array"}
    /\ e.lastInsertID \in {"absent", "number"}

\* The struct an element is stored into.
Decoded(type, columns, types, data, cell, lid, err) ==
    [type |-> type, columns |-> columns, types |-> types, data |-> data, cell |-> cell,
     lastInsertID |-> lid, error |-> err]
asQueryResult(e) ==
    Decoded("QueryResult", e.columns = "array", e.types = "array", e.values = "array",
            IF e.values = "array" THEN float64Of(e.cell) ELSE NoCell, FALSE, e.error)
asQueryResultAssoc(e) ==
    Decoded("QueryResultAssoc", FALSE, e.types = "object", e.rows = "array",
            IF e.rows = "array" THEN float64Of(e.cell) ELSE NoCell, FALSE, e.error)
asRequestResult(e) ==
    Decoded("RequestResult", e.columns = "array", e.types = "array", e.values = "array",
            IF e.values = "array" THEN float64Of(e.cell) ELSE NoCell,
            e.lastInsertID = "number", e.error)

ErrNeitherShape == "unable to unmarshal results into either []QueryResult or []QueryResultAssoc"
ResultsOut(type, elems) == [type |-> type, elems |-> elems]
NoResults == ResultsOut("nil", <<>>)

\* The element struct of a slice type.
fitsElem(type, e) ==
    IF type = "[]QueryResult" THEN fitsQueryResult(e)
    ELSE IF type = "[]QueryResultAssoc" THEN fitsQueryResultAssoc(e)
    ELSE fitsRequestResult(e)
asElem(type, e) ==
    IF type = "[]QueryResult" THEN asQueryResult(e)
    ELSE IF type = "[]QueryResultAssoc" THEN asQueryResultAssoc(e)
    ELSE asRequestResult(e)

\* json.Unmarshal(aux.Results, &res) into a slice of a struct type.
unmarshalResults(r, type) ==
    IF r.k = "null" THEN [err |-> Nil, out |-> ResultsOut(type, <<>>)]
    ELSE IF r.k # "array" THEN [err |-> ErrUnmarshalType, out |-> NoResults]
    ELSE IF \A i \in DOMAIN r.elems : fitsElem(type, r.elems[i])
    THEN [err |-> Nil,
          out |-> ResultsOut(type, [i \in DOMAIN r.elems |-> asElem(type, r.elems[i])])]
    ELSE [err |-> ErrUnmarshalType, out |-> NoResults]

\* A decoder that tries the associative shape first.
QueryResponse_UnmarshalJSON_AssocFirst(r) ==
    LET a == unmarshalResults(r, "[]QueryResultAssoc")
        q == unmarshalResults(r, "[]QueryResult")
    IN IF a.err = Nil THEN a
       ELSE IF q.err = Nil THEN q
       ELSE [err |-> ErrNeitherShape, out |-> NoResults]

\* QueryResponse.UnmarshalJSON: []QueryResult is tried first, then
\* []QueryResultAssoc.
QueryResponse_UnmarshalJSON(r) ==
    LET q == unmarshalResults(r, "[]QueryResult")
        a == unmarshalResults(r, "[]QueryResultAssoc")
    IN IF q.err = Nil THEN q
       ELSE IF a.err = Nil THEN a
       ELSE [err |-> ErrNeitherShape, out |-> NoResults]

\* json.Unmarshal(respBody, &reqResp): Results is a []RequestResult; an absent
\* "results" leaves it nil.
RequestResponse_Unmarshal(r) ==
    IF r.k = "absent" THEN [err |-> Nil, out |-> ResultsOut("[]RequestResult", <<>>)]
    ELSE unmarshalResults(r, "[]RequestResult")

\* Query: json.Unmarshal(respBody, &queryResponse)
Query_decode ==
    /\ decPC = "new"
    /\ decOp = "Query"
    /\ LET r == QueryResponse_UnmarshalJSON(decIn) IN
       /\ decOut' = r.out
       /\ decErr' = r.err
    /\ decPC' = "decoded"
    /\ UNCHANGED <<decOp, decIn>>
    /\ UNCHANGED <<balVars, cliVars, stmtVars, optVars, loadVars, hasVars, cntVars>>

\* Request: json.Unmarshal(respBody, &reqResp)
Request_decode ==
    /\ decPC = "new"
    /\ decOp = "Request"
    /\ LET r == RequestResponse_Unmarshal(decIn) IN
       /\ decOut' = r.out
       /\ decErr' = r.err
    /\ decPC' = "decoded"
    /\ UNCHANGED <<decOp, decIn>>
    /\ UNCHANGED <<balVars, cliVars, stmtVars, optVars, loadVars, hasVars, cntVars>>

DecNext ==
    \/ Query_decode
    \/ Request_decode

\* --------------------------------------------------------------- HasError
\* The envelope of a 200 response: its top-level "error" field ("" when the
\* field is absent), the form of its results and their "error" fields.
TopErrors == {"", "leader not found"}
Envelope(error, form, errs) == [error |-> error, form |-> form, errs |-> errs]
Envelopes(op) ==
    {Envelope(t, f, e) :
        t \in TopErrors,
        f \in (IF op = "Query" THEN {"columnar", "associative"} ELSE {"columnar"}),
        e \in ErrSeqs}
EnvelopeCalls == UNION {{<<op, b>> : b \in Envelopes(op)} : op \in JSONOps}
NoEnvelope == Envelope("", "columnar", <<>>)

\* A decoded response: the dynamic type of its Results and the Error of each
\* result. None of the three response structs has a field for the top-level
\* "error" key, and json.Unmarshal drops a key without a field.
Response(type, errs) == [type |-> type, errs |-> errs]
NoResponse == Response("nil", <<>>)
ResultsType(op, form) ==
    IF op = "Execute" THEN "[]ExecuteResult"
    ELSE IF op = "Request" THEN "[]RequestResult"
    ELSE IF form = "columnar" THEN "[]QueryResult"
    ELSE "[]QueryResultAssoc"

\* json.Unmarshal(respBody, &resp) for the three response types.
unmarshalEnvelope(op, b) == Response(ResultsType(op, b.form), b.errs)

NotFound == [found |-> FALSE, idx |-> -1, msg |-> ""]

\* QueryResponse.HasError: the type switch over Results, one loop per type.
QueryResponse_HasError(r) ==
    IF r.type = "[]QueryResult" THEN HasError(r.errs)
    ELSE IF r.type = "[]QueryResultAssoc" THEN HasError(r.errs)
    ELSE NotFound

\* resp.HasError() for the response of op.
HasErrorOf(op, r) ==
    IF op = "Query" THEN QueryResponse_HasError(r) ELSE HasError(r.errs)

\* json.Unmarshal(respBody, &resp)
Envelope_decode ==
    /\ hasPC = "new"
    /\ hasResp' = unmarshalEnvelope(hasOp, hasBody)
    /\ hasPC' = "decoded"
    /\ UNCHANGED <<hasOp, hasBody, hasRet>>
    /\ UNCHANGED <<balVars, cliVars, stmtVars, wireVars, cntVars>>

\* f, i, msg := resp.HasError()
HasError_call ==
    /\ hasPC = "decoded"
    /\ hasRet' = HasErrorOf(hasOp, hasResp)
    /\ hasPC' = "reported"
    /\ UNCHANGED <<hasOp, hasBody, hasResp>>
    /\ UNCHANGED <<balVars, cliVars, stmtVars, wireVars, cntVars>>

HasNext ==
    \/ Envelope_decode
    \/ HasError_call

\* ------------------------------------------------------------------ Load
\* Bytes are one-character strings; ZeroByte is the byte 0.
ZeroByte == "NUL"
First13Len == 13
SigLen == 13
Signature == <<"S", "Q", "L", "i", "t", "e", " ", "f", "o", "r", "m", "a", "t">>
NotSignature == <<"S", "Q", "L", "i", "t", "e", " ", "f", "o", "r", "m", "a", "T">>
SQLText == <<"C", "R", "E", "A", "T", "E", " ", "T", "A", "B", "L", "E", " ">>

\* The input streams: a database file, SQL text and a near miss of the
\* signature, each followed by up to MaxTail more bytes; and streams shorter
\* than the buffer.
Tails == UNION {[1..n -> {"3", "x"}] : n \in 0..MaxTail}
LoadInputs ==
    {h \o t : h \in {Signature, NotSignature, SQLText}, t \in Tails}
        \cup {SubSeq(Signature, 1, n) : n \in {0, 1, 6}}
        \cup {SubSeq(SQLText, 1, n) : n \in {1, 6}}

ContentTypes == {"application/octet-stream", "text/plain"}
NoContentType == "none"
ErrEOF == "EOF"

\* validSQLiteData(b): len(b) > 13 && string(b[0:13]) == "SQLite format"
validSQLiteData(b) ==
    Len(b) > SigLen /\ SubSeq(b, 1, SigLen) = Signature

\* first13 after r.Read(first13) stored n bytes in it: the rest keeps the
\* zero bytes of make([]byte, 13).
bufferAfterRead(in, n) ==
    SubSeq(in, 1, n) \o [i \in 1..(First13Len - n) |-> ZeroByte]

\* Load: first13 := make([]byte, 13); _, err = r.Read(first13). A Read stores
\* from one byte up to the buffer's length; at the end of the stream it
\* returns io.EOF, alone or together with the last bytes.
Load_read ==
    /\ loadPC = "new"
    /\ \/ /\ Len(loadIn) = 0
          /\ loadFirst13' = bufferAfterRead(loadIn, 0)
          /\ loadRest' = <<>>
          /\ loadErr' = ErrEOF
          /\ loadPC' = "returned"
       \/ \E n \in 1..First13Len :
          /\ n <= Len(loadIn)
          /\ loadFirst13' = bufferAfterRead(loadIn, n)
          /\ loadRest' = SubSeq(loadIn, n + 1, Len(loadIn))
          /\ \/ loadErr' = Nil /\ loadPC' = "read"
             \/ n = Len(loadIn) /\ loadErr' = ErrEOF /\ loadPC' = "returned"
    /\ UNCHANGED <<loadIn, loadCT, loadBody>>
    /\ UNCHANGED <<balVars, cliVars, stmtVars, optVars, decVars, hasVars, cntVars>>

\* Load: the content type is chosen from first13, and the body is
\* io.MultiReader(bytes.NewReader(first13), r).
Load_send ==
    /\ loadPC = "read"
    /\ loadCT' = IF validSQLiteData(loadFirst13) THEN "application/octet-stream"
                 ELSE "text/plain"
    /\ loadBody' = loadFirst13 \o loadRest
    /\ loadPC' = "sent"
    /\ UNCHANGED <<loadIn, loadFirst13, loadRest, loadErr>>
    /\ UNCHANGED <<balVars, cliVars, stmtVars, optVars, decVars, hasVars, cntVars>>

LoadNext ==
    \/ Load_read
    \/ Load_send

\* ------------------------------------------------------ counting selector
\* The RandomBalancer that is told of successes and failures: a map from
\* address to "available" and the count of the available addresses.
NodeAddrs == {"n1", "n2", "n3"}
NodeLists == UNION {[1..n -> NodeAddrs] : n \in 0..MaxAddrs}
ErrNoAddressGiven == "must provide at least one address"

\* The loop of the constructor over the addresses, from index i with the map
\* a built so far.
RECURSIVE addressesLoop(_, _, _)
addressesLoop(addrs, i, a) ==
    IF i > Len(addrs) THEN [err |-> Nil, addresses |-> a]
    ELSE IF addrs[i] \in DOMAIN a THEN [err |-> ErrDuplicateAddresses, addresses |-> <<>>]
    ELSE addressesLoop(addrs, i + 1, a @@ (addrs[i] :> TRUE))

NewCountingBalancerResult(addrs) ==
    IF Len(addrs) = 0 THEN [err |-> ErrNoAddressGiven, addresses |-> <<>>]
    ELSE addressesLoop(addrs, 1, <<>>)

\* a, ok := rb.addresses[addr]
lookup(m, addr) ==
    IF addr \in DOMAIN m THEN [a |-> m[addr], ok |-> TRUE] ELSE [a |-> FALSE, ok |-> FALSE]

Counting(m, n) == [addresses |-> m, numAvailable |-> n]

\* The body of MarkSuccess, under rb.mu.Lock().
MarkSuccessApply(m, n, addr) ==
    LET l == lookup(m, addr) IN
    IF l.a \/ ~l.ok THEN Counting(m, n)
    ELSE Counting([m EXCEPT ![addr] = TRUE], n + 1)

\* A MarkFailure that does not look at the address's current mark.
MarkFailureApply_Unchecked(m, n, addr) ==
    LET l == lookup(m, addr) IN
    IF ~l.ok THEN Counting(m, n)
    ELSE Counting([m EXCEPT ![addr] = FALSE], n - 1)

\* The body of MarkFailure, under rb.mu.Lock().
MarkFailureApply(m, n, addr) ==
    LET l == lookup(m, addr) IN
    IF ~l.a \/ ~l.ok THEN Counting(m, n)
    ELSE Counting([m EXCEPT ![addr] = FALSE], n - 1)

\* NewRandomBalancer(addresses) of the counting selector.
NewCountingBalancer ==
    /\ cntErr = NotCalled
    /\ \E addrs \in NodeLists :
          LET r == NewCountingBalancerResult(addrs) IN
          /\ cntArgs' = addrs
          /\ cntErr' = r.err
          /\ cntAddresses' = r.addresses
          /\ numAvailable' = Cardinality(DOMAIN r.addresses)
    /\ UNCHANGED cntLast
    /\ UNCHANGED <<balVars, cliVars, stmtVars, wireVars, hasVars>>

\* MarkSuccess(addr)
MarkSuccess(addr) ==
    /\ cntErr = Nil
    /\ LET r == MarkSuccessApply(cntAddresses, numAvailable, addr) IN
       /\ cntAddresses' = r.addresses
       /\ numAvailable' = r.numAvailable
    /\ cntLast' = <<"MarkSuccess", addr>>
    /\ UNCHANGED <<cntArgs, cntErr>>
    /\ UNCHANGED <<balVars, cliVars, stmtVars, wireVars, hasVars>>

\* MarkFailure(addr)
MarkFailure(addr) ==
    /\ cntErr = Nil
    /\ LET r == MarkFailureApply(cntAddresses, numAvailable, addr) IN
       /\ cntAddresses' = r.addresses
       /\ numAvailable' = r.numAvailable
    /\ cntLast' = <<"MarkFailure", addr>>
    /\ UNCHANGED <<cntArgs, cntErr>>
    /\ UNCHANGED <<balVars, cliVars, stmtVars, wireVars, hasVars>>

CntNext ==
    \/ NewCountingBalancer
    \/ \E addr \in NodeAddrs : MarkSuccess(addr)
    \/ \E addr \in NodeAddrs : MarkFailure(addr)

\* ------------------------------------------------------- specifications
\* The inputs of the codecs, one set per input; a specification widens the
\* sets of its own component.
NoInputs ==
    [stmt |-> {ZeroStatement}, stmts |-> {<<>>}, opts |-> {<<"MakeURLValues", UntypedNil>>},
     resps |-> {<<"Query", Results("absent", <<>>)>>}, loads |-> {<<>>},
     envs |-> {<<"Execute", NoEnvelope>>}]

\* The state after the program starts: no selector constructed, a new client,
\* and the inputs drawn from the sets of I.
Init(I) ==
    /\ addresses = <<>>
    /\ ctorErr = NotCalled
    /\ hosts = <<>>
    /\ healthy = <<>>
    /\ mu = [r |-> {}, q |-> {}]
    /\ ch = NilChan
    /\ done = NilChan
    /\ wg = 0
    /\ probPC = "none"
    /\ probIdx = 0
    /\ promPC = "none"
    /\ promU = NoURL
    /\ callPC = [c \in Callers |-> "idle"]
    /\ callArg = [c \in Callers |-> NoURL]
    /\ callRet = [c \in Callers |-> NoRet]
    /\ closePC = "idle"
    /\ crashed = FALSE
    /\ hostUp = [u \in URLs |-> TRUE]
    /\ quarantined = [u \in URLs |-> FALSE]
    /\ callList = [c \in Callers |-> <<>>]
    /\ basicAuthUser = EmptyStr
    /\ basicAuthPass = EmptyStr
    /\ promoteErrors = FALSE
    /\ cfgPC = "idle"
    /\ cfgArg = NoAuth
    /\ reqPC = "idle"
    /\ reqOp = "none"
    /\ reqTmpU = EmptyStr
    /\ reqHdr = NoHeader
    /\ reqOut = NoOutcome
    /\ reqRet = NoRetVal
    /\ authPairs = {}
    /\ lastAuth = NoAuth
    /\ lastPromote = FALSE
    /\ raced = FALSE
    /\ reqSent = 0
    /\ respBody = "none"
    /\ stmt \in I.stmt
    /\ stPC = "new"
    /\ stJSON = JNull
    /\ stDec = ZeroStatement
    /\ stErr = Nil
    /\ stmts \in I.stmts
    /\ stsPC = "new"
    /\ stsJSON = JNull
    /\ stsDec = <<>>
    /\ stsErr = Nil
    /\ \E c \in I.opts : optOp = c[1] /\ optIn = c[2]
    /\ optPC = "new"
    /\ optVals = NilValues
    /\ optErr = Nil
    /\ optURL = NoFullURL
    /\ \E c \in I.resps : decOp = c[1] /\ decIn = c[2]
    /\ decPC = "new"
    /\ decOut = NoResults
    /\ decErr = Nil
    /\ loadIn \in I.loads
    /\ loadPC = "new"
    /\ loadFirst13 = <<>>
    /\ loadRest = <<>>
    /\ loadErr = Nil
    /\ loadCT = NoContentType
    /\ loadBody = <<>>
    /\ \E c \in I.envs : hasOp = c[1] /\ hasBody = c[2]
    /\ hasPC = "new"
    /\ hasResp = NoResponse
    /\ hasRet = NotFound
    /\ cntArgs = <<>>
    /\ cntErr = NotCalled
    /\ cntAddresses = <<>>
    /\ numAvailable = 0
    /\ cntLast = <<"none", "">>

BalSpec == Init(NoInputs) /\ [][BalNext]_vars

\* What the scheduler guarantees: a goroutine that can take a step eventually
\* takes one. The callers' decisions to call, the ticker and the environment
\* are under no obligation, except that the ticker keeps ticking.
BalFairSpec ==
    /\ BalSpec
    /\ WF_vars(checkBadHosts)
    /\ WF_vars(markGoodHosts)
    /\ \A c \in Callers : WF_vars(Next_body(c) \/ Next_return(c) \/ MarkBad_body(c))
    /\ WF_vars(Close /\ closePC # "idle")

PoolSpec == Init(NoInputs) /\ [][PoolNext]_vars

CliSpec == Init(NoInputs) /\ [][CliNext]_vars

StmtSpec == Init([NoInputs EXCEPT !.stmt = Statements]) /\ [][StmtNext]_vars

StmtsSpec == Init([NoInputs EXCEPT !.stmts = StmtSeqs]) /\ [][StmtsNext]_vars

OptSpec == Init([NoInputs EXCEPT !.opts = OptCalls]) /\ [][OptNext]_vars

DecSpec == Init([NoInputs EXCEPT !.resps = Responses]) /\ [][DecNext]_vars

LoadSpec == Init([NoInputs EXCEPT !.loads = LoadInputs]) /\ [][LoadNext]_vars

HasSpec == Init([NoInputs EXCEPT !.envs = EnvelopeCalls]) /\ [][HasNext]_vars

CntSpec == Init(NoInputs) /\ [][CntNext]_vars

\* ---------------------------------------------------------------- claims
HealthySet == {hosts[i] : i \in {j \in DOMAIN hosts : healthy[j]}}
IsHealthy(u) == \E i \in DOMAIN hosts : hosts[i] = u /\ healthy[i]

\* C1: once MarkBad(e) has run, no Next() call returns e unless the health
\* predicate has passed for e on a probe made after that MarkBad.
C1_NoReturnWhileMarkedBad ==
    \A c \in Callers :
        (callPC[c] = "next_ret" /\ callRet[c].err = Nil)
            => ~quarantined[callRet[c].url]

\* C1 witness: e is marked bad, no probe has passed for it, and a Next() call
\* has returned another endpoint.
C1_Witness ==
    \E c \in Callers : \E u \in URLs :
        /\ quarantined[u]
        /\ callPC[c] = "next_ret"
        /\ callRet[c].err = Nil
        /\ callRet[c].url # u

\* C2: an endpoint of the pool for which, from some point on, the health
\* predicate answers true, no MarkBad call is in progress and the selector is
\* not closed, is eventually healthy for good.
C2_EventuallyHealthyAgain ==
    \A u \in URLs :
        (<>[](/\ Constructed
              /\ u \in Range(hosts)
              /\ hostUp[u]
              /\ closePC = "idle"
              /\ \A c \in Callers : callPC[c] # "markbad_lock"))
            => <>[]IsHealthy(u)

\* C3: a Close() call leads to both goroutines having exited and Close()
\* having returned.
C3_CloseReturns ==
    (closePC = "called")
        ~> (closePC = "returned" /\ probPC = "exited" /\ promPC = "exited")

\* C4: Next() returns the no-hosts error exactly when no endpoint is healthy,
\* otherwise a healthy endpoint; and every healthy endpoint can be the result.
C4_NextResult ==
    \A c \in Callers :
        /\ callPC[c] = "next_ret" =>
              /\ (callRet[c].err = ErrNoHostsAvailable) <=> (HealthySet = {})
              /\ (callRet[c].err # ErrNoHostsAvailable) =>
                     (callRet[c].err = Nil /\ callRet[c].url \in HealthySet)
        /\ (callPC[c] = "next_rlock" /\ CanRLock /\ ~crashed) =>
              \A u \in HealthySet : ENABLED (Next_body(c) /\ callRet'[c].url = u)

\* C4 witness: with the first endpoint of a two-endpoint pool unhealthy, a
\* Next() call has returned the second.
C4_Witness ==
    \E c \in Callers :
        /\ Len(hosts) = 2
        /\ ~healthy[1]
        /\ callPC[c] = "next_ret"
        /\ callRet[c].url = hosts[2]

\* The outcome of construction as C5 states it.
C5_Claimed(addrs) ==
    IF \E i, j \in DOMAIN addrs : i # j /\ addrs[i] = addrs[j]
    THEN ErrDuplicateAddresses
    ELSE IF Len(addrs) = 0 THEN ErrNoHostsAvailable
    ELSE Nil

\* C5 (as stated): construction fails with the duplicate error when two
\* addresses are equal, with the no-hosts error when the list is empty, and
\* otherwise succeeds with every configured endpoint healthy.
C5_AsStated ==
    [][(ctorErr = NotCalled /\ ctorErr' # NotCalled) =>
          /\ ctorErr' = C5_Claimed(addresses')
          /\ ctorErr' = Nil =>
                 /\ Len(hosts') = Len(addresses')
                 /\ HealthyHosts' = hosts'
                 /\ BadHosts' = <<>>]_vars

C5_AllParse(addrs) == \A i \in DOMAIN addrs : urlString(addrs[i]) # ErrParse

\* C5 (amended): for a list whose addresses all parse as URLs, construction
\* fails with the duplicate error when two addresses have the same URL string
\* (equal addresses included), fails with the no-hosts error when the list is
\* empty, and otherwise succeeds with every configured endpoint healthy; a
\* list with an address that does not parse fails.
C5_Construction ==
    [][(ctorErr = NotCalled /\ ctorErr' # NotCalled) =>
          LET addrs == addresses' IN
          IF C5_AllParse(addrs)
          THEN /\ ctorErr' =
                    (IF \E i, j \in DOMAIN addrs :
                            i # j /\ urlString(addrs[i]) = urlString(addrs[j])
                     THEN ErrDuplicateAddresses
                     ELSE IF Len(addrs) = 0 THEN ErrNoHostsAvailable
                     ELSE Nil)
               /\ (\E i, j \in DOMAIN addrs : i # j /\ addrs[i] = addrs[j])
                      => ctorErr' = ErrDuplicateAddresses
               /\ ctorErr' = Nil =>
                      /\ hosts' = [i \in DOMAIN addrs |-> urlString(addrs[i])]
                      /\ HealthyHosts' = hosts'
                      /\ BadHosts' = <<>>
          ELSE ctorErr' \in {ErrParse, ErrDuplicateAddresses}]_vars

\* C5 witness: a list of two addresses with the same URL was refused.
C5_Witness ==
    /\ ctorErr = ErrDuplicateAddresses
    /\ Len(addresses) = 2

\* C6 (as stated): a request carries no credentials, or a (username, password)
\* pair that one single SetBasicAuth call set.
C6_NoMixedCredentials ==
    reqPC = "do" => (reqHdr = NoHeader \/ parseBasicAuth(reqHdr) \in authPairs)

\* The first failing statement of a sequence of per-statement errors.
C7_FirstFailing(errs) ==
    CHOOSE i \in DOMAIN errs : errs[i] # "" /\ \A j \in 1..(i - 1) : errs[j] = ""

\* C7: when Execute, Query or Request gets a 200 response that decodes and
\* holds a statement-level error, it returns an error naming the index and
\* the message of the first failing statement if the most recent PromoteErrors
\* call passed true; otherwise (false, or no call) it returns a nil error and
\* a response whose HasError reports that statement.
C7_PromoteErrors ==
    [][(/\ reqPC = "do" /\ reqPC' = "done"
        /\ reqOp \in JSONOps
        /\ reqOut'.kind = "resp" /\ reqOut'.status = StatusOK
        /\ reqOut'.body.json
        /\ \E i \in DOMAIN reqOut'.body.errs : reqOut'.body.errs[i] # "")
       => LET errs == reqOut'.body.errs
              i == C7_FirstFailing(errs)
          IN /\ lastPromote => reqRet'.err = StmtErr(i - 1, errs[i])
             /\ ~lastPromote =>
                    /\ reqRet'.err = NoErr
                    /\ reqRet'.resp = reqOut'.body
                    /\ HasError(reqRet'.resp.errs)
                           = [found |-> TRUE, idx |-> i - 1, msg |-> errs[i]]]_vars

\* C7 witness: with promotion enabled, a call whose second statement is the
\* first to fail returned the error of statement 1.
C7_Witness ==
    /\ reqPC = "done"
    /\ reqOp \in JSONOps
    /\ Len(reqOut.body.errs) = 2
    /\ reqOut.body.errs[1] = ""
    /\ reqRet.err = StmtErr(1, reqOut.body.errs[2])

\* C8 (as stated): for every operation, a response with a non-2xx status makes
\* the call return an error carrying the status code and the body, and a
\* response with a 2xx status is not turned into that error.
C8_StatusIsError ==
    (reqPC = "done" /\ reqOut.kind = "resp") =>
        IF reqOut.status \in 200..299
        THEN reqRet.err.kind # "status"
        ELSE reqRet.err = StatusBodyErr(reqOut.status, reqOut.body)

\* C9: a request built while no SetBasicAuth call runs carries the username
\* and password of the most recent SetBasicAuth call, and no Authorization
\* header when there was no call or the most recent one passed two empty
\* strings.
C9_MostRecentAuth ==
    (reqPC = "do" /\ ~raced) =>
        IF lastAuth = NoAuth THEN reqHdr = NoHeader
        ELSE reqHdr # NoHeader /\ parseBasicAuth(reqHdr) = lastAuth

\* C9 witness: after several SetBasicAuth calls, a request carries the
\* credentials of the last one, whose username is empty.
C9_Witness ==
    /\ reqPC = "do"
    /\ ~raced
    /\ Cardinality(authPairs) = 3
    /\ lastAuth[1] = EmptyStr
    /\ reqHdr = <<":", "p", ":", "2">>

\* C10 (as stated): a statement that does not have both kinds of parameters
\* decodes from its own encoding without error, to an equal statement.
C10_RoundTrip ==
    (/\ stPC = "decoded"
     /\ ~(Len(stmt.PositionalParams) > 0 /\ DOMAIN stmt.NamedParams # {}))
        => (stErr = Nil /\ stDec = stmt)

\* C11 (as stated): decoding the encoding of a sequence of statements into a
\* SQLStatements value gives no error and a sequence of the same length whose
\* i-th statement is the i-th original statement.
C11_SequenceRoundTrip ==
    stsPC = "decoded" =>
        /\ stsErr = Nil
        /\ Len(stsDec) = Len(stmts)
        /\ \A i \in 1..Len(stmts) : stsDec[i] = stmts[i]

C13_Key(f) == Tag(f.tag[1])
C13_OmitEmpty(f) == Len(f.tag) > 1 /\ f.tag[2] = "omitempty"
C13_ZeroString(kind) ==
    IF kind = "string" THEN ""
    ELSE IF kind = "bool" THEN "false"
    ELSE IF kind = "duration" THEN "0s"
    ELSE "0"
C13_Emitted(f) ==
    /\ f.tag # NoTag
    /\ f.exported
    /\ f.kind \in SupportedKinds
    /\ ~(f.val = ZeroV /\ C13_OmitEmpty(f))

\* C13 (as stated): for a struct (or a pointer to one), the keys MakeURLValues
\* emits are exactly the keys of the tagged fields of a supported kind that
\* are not both zero and marked omitempty; a zero-valued field without
\* omitempty is present with its zero string form; a field without a tag is
\* never emitted.
C13_KeysEmitted ==
    (/\ optPC = "encoded"
     /\ ~optIn.untyped /\ ~optIn.isnil /\ optIn.kind = "struct")
        => LET fs == optIn.fields IN
           /\ optErr = Nil
           /\ DOMAIN optVals.m = {C13_Key(fs[i]) : i \in {j \in DOMAIN fs : C13_Emitted(fs[j])}}
           /\ \A i \in DOMAIN fs :
                  (C13_Emitted(fs[i]) /\ fs[i].val = ZeroV) =>
                      \E k \in DOMAIN optVals.m[C13_Key(fs[i])] :
                          optVals.m[C13_Key(fs[i])][k] = C13_ZeroString(fs[i].kind)

\* C14 (as stated): an operation called with nil options and the same
\* operation called with all-default options both send their request to the
\* fixed URL of the operation, with no query string added.
C14_NilIsDefault ==
    (/\ optPC = "built"
     /\ optOp \in PtrOptOps
     /\ optIn \in {NilOptions(optOp), ZeroOptions(optOp)})
        => optURL = URL(FixedURL(optOp), FALSE, <<>>)

\* C15: MakeURLValues returns an error exactly when its input is not nil (the
\* untyped nil and a nil pointer of any type are nil) and is neither a struct
\* nor a pointer to a struct; for the nil input and for a nil struct pointer
\* it returns an empty set of parameters and no error.
C15_ErrorExactly ==
    optPC = "encoded" =>
        LET isNil == optIn.untyped \/ (optIn.ptr /\ optIn.isnil)
            isStruct == ~optIn.untyped /\ optIn.kind = "struct"
        IN /\ (optErr # Nil) <=> (~isNil /\ ~isStruct)
           /\ (optIn.untyped \/ (isNil /\ isStruct)) =>
                  (optErr = Nil /\ optVals = EmptyValues)

\* C15 witness: MakeURLValues was given a pointer to an int and returned the
\* error.
C15_Witness ==
    /\ optPC = "encoded"
    /\ optIn = Input(TRUE, FALSE, "int", <<>>)
    /\ optErr = ErrNotStruct

\* The two forms of a "results" value as C16 names them: columnar (every
\* element has columns and values, and no associative field), associative
\* (every element has a types mapping and rows, and no columnar field).
C16_Columnar(r) ==
    /\ r.k = "array"
    /\ \A i \in DOMAIN r.elems :
          LET e == r.elems[i] IN
          /\ e.columns = "array" /\ e.values = "array"
          /\ e.types \in {"absent", "array"} /\ e.rows = "absent"
C16_Assoc(r) ==
    /\ r.k = "array"
    /\ Len(r.elems) > 0
    /\ \A i \in DOMAIN r.elems :
          LET e == r.elems[i] IN
          /\ e.types = "object" /\ e.rows = "array"
          /\ e.columns = "absent" /\ e.values = "absent"

C16_ColumnarCompatible(e) ==
    \A k \in {e.columns, e.types, e.values} : k \in {"absent", "array"}
C16_AssocCompatible(e) ==
    e.types \in {"absent", "object"} /\ e.rows \in {"absent", "array"}

C17_RequestResults ==
    (/\ decPC = "decoded" /\ decOp = "Request"
     /\ decIn.k = "array"
     /\ \A i \in DOMAIN decIn.elems :
            decIn.elems[i] \in ColumnarElems \cup AssocElems \cup {WriteElem})
        => LET assoc == \E i \in DOMAIN decIn.elems : decIn.elems[i] \in AssocElems IN
           /\ decErr = Nil
           /\ decOut.type = (IF assoc THEN "[]RequestResultAssoc" ELSE "[]RequestResult")
           /\ Len(decOut.elems) = Len(decIn.elems)
           /\ \A i \in DOMAIN decOut.elems :
                  decIn.elems[i] = WriteElem => decOut.elems[i].lastInsertID

\* C18 (as stated): an integer cell of a decoded query or request result has
\* exactly the value written in the JSON text.
C18_IntegerPrecision ==
    (decPC = "decoded" /\ decErr = Nil) =>
        \A i \in DOMAIN decOut.elems :
            decOut.elems[i].data => decOut.elems[i].cell = decIn.elems[i].cell

\* Whether a stream begins with the 13-byte SQLite signature.
C19_BeginsWithSignature(in) ==
    Len(in) >= Len(Signature) /\ SubSeq(in, 1, Len(Signature)) = Signature

\* C19 (as stated): Load sends the stream as application/octet-stream when
\* it begins with the SQLite signature, and as text/plain otherwise.
C19_ContentType ==
    loadPC = "sent" =>
        loadCT = (IF C19_BeginsWithSignature(loadIn) THEN "application/octet-stream"
                  ELSE "text/plain")

\* C20 (as stated): the request body Load transmits is the input stream, byte
\* for byte.
C20_BodyIsInput ==
    loadPC = "sent" => loadBody = loadIn

\* C21 (as stated): HasError on a decoded response reports the top-level error
\* of the response when it is set, otherwise the per-statement error with the
\* lowest index, with that statement's index and message; it reports no error
\* exactly when neither the top-level error nor a per-statement error is set.
C21_TopLevelFirst ==
    hasPC = "reported" =>
        LET b == hasBody
            failing == {i \in DOMAIN b.errs : b.errs[i] # ""}
        IN IF b.error # ""
           THEN hasRet.found /\ hasRet.msg = b.error
           ELSE IF failing # {}
           THEN LET i == CHOOSE j \in failing : \A k \in failing : j <= k
                IN hasRet = [found |-> TRUE, idx |-> i - 1, msg |-> b.errs[i]]
           ELSE hasRet = NotFound

C23_HardErrors ==
    (/\ reqPC = "done"
     /\ reqOp \in JSONOps
     /\ \/ reqOut.kind = "transport"
        \/ reqOut.kind = "resp" /\ reqOut.status \notin 200..299
        \/ reqOut.kind = "resp" /\ reqOut.status \in 200..299 /\ ~reqOut.body.json)
        => (reqRet.err # NoErr /\ reqRet.resp = NoBody)

\* C23 witness: with promotion disabled, a Query that got a 200 response whose
\* body does not decode has returned the decode error and no response.
C23_Witness ==
    /\ reqPC = "done"
    /\ reqOp = "Query"
    /\ ~promoteErrors /\ ~lastPromote
    /\ reqOut = Outcome("resp", StatusOK, GarbageBody)
    /\ reqRet = Ret(NoBody, DecodeErr)

\* C28 (as stated): when an operation returns, the body of the response it
\* obtained is closed, unless the operation returned it to the caller as the
\* stream (which it does only together with a nil error).
C28_BodiesClosed ==
    reqPC = "done" =>
        \/ respBody \in {"none", "closed"}
        \/ respBody = "caller" /\ reqOp \in {"Backup", "Ready"} /\ reqRet.err = NoErr

\* C29: when Execute, Query or Request returns a promoted statement-level
\* error, it returns with it the decoded response, the one the call returns
\* with a nil error when promotion is disabled.
C29_PromotedKeepsResponse ==
    (reqPC = "done" /\ reqOp \in JSONOps /\ reqRet.err.kind = "statement") =>
        /\ reqRet.resp # NoBody
        /\ reqRet.resp = reqOut.body
        /\ opResult(reqOp, reqOut, FALSE) = Ret(reqRet.resp, NoErr)

\* C29 witness: a Request whose first statement failed has returned the
\* promoted error and the response holding both results.
C29_Witness ==
    /\ reqPC = "done"
    /\ reqOp = "Request"
    /\ reqRet.err = StmtErr(0, "x")
    /\ reqRet.resp = [json |-> TRUE, errs |-> <<"x", "">>]

\* C24 (as stated): the prober does not hold the health-set lock while it
\* calls the health predicate or while it passes an endpoint to the promoter.
C24_NoLockDuringProbe ==
    probPC \in {"chk", "send"} => "prober" \notin mu.r

\* C25: in every state of a constructed selector the pool is the configured
\* address list, endpoint for endpoint and without duplicates, each endpoint
\* has a health flag, the healthy and the unhealthy endpoints are disjoint and
\* together the pool, a Healthy() or Bad() call in progress holds the set of
\* the current state, and a Healthy() and a Bad() result held together are
\* disjoint and together the pool.
C25_PoolPartition ==
    Constructed =>
        /\ hosts = [i \in DOMAIN addresses |-> urlString(addresses[i])]
        /\ \A i, j \in DOMAIN hosts : i # j => hosts[i] # hosts[j]
        /\ healthy \in [DOMAIN hosts -> BOOLEAN]
        /\ Range(HealthyHosts) \cap Range(BadHosts) = {}
        /\ Range(HealthyHosts) \cup Range(BadHosts) = Range(hosts)
        /\ Len(HealthyHosts) + Len(BadHosts) = Len(hosts)
        /\ \A c \in Callers :
              /\ callPC[c] = "healthy_ret" => callList[c] = HealthyHosts
              /\ callPC[c] = "bad_ret" => callList[c] = BadHosts
        /\ \A c, d \in Callers :
              (callPC[c] = "healthy_ret" /\ callPC[d] = "bad_ret") =>
                  /\ Range(callList[c]) \cap Range(callList[d]) = {}
                  /\ Range(callList[c]) \cup Range(callList[d]) = Range(hosts)

\* C25 witness: in a pool of two with the first endpoint marked bad, a
\* Healthy() call holds the second endpoint while a Bad() call holds the first.
C25_Witness ==
    \E c, d \in Callers :
        /\ Len(hosts) = 2
        /\ callPC[c] = "healthy_ret" /\ callList[c] = <<hosts[2]>>
        /\ callPC[d] = "bad_ret" /\ callList[d] = <<hosts[1]>>

\* C26: a flag goes from healthy to unhealthy only in a MarkBad call on that
\* endpoint and from unhealthy to healthy only when the promoter applies the
\* endpoint the prober handed it; a MarkBad call leaves every other endpoint
\* as it was, and changes nothing when its address is not in the pool; Next,
\* Healthy and Bad change no flag; the pool itself never changes.
C26_FlagFrame ==
    [][(Constructed /\ Constructed') =>
          /\ hosts' = hosts
          /\ \A i \in DOMAIN hosts :
                /\ (healthy[i] /\ ~healthy'[i]) =>
                       \E c \in Callers :
                           /\ callPC[c] = "markbad_lock" /\ callPC'[c] = "idle"
                           /\ callArg[c] = hosts[i]
                /\ (~healthy[i] /\ healthy'[i]) =>
                       /\ promPC = "lock" /\ promPC' = "select"
                       /\ promU = hosts[i]
          /\ \A c \in Callers :
                /\ (callPC[c] = "markbad_lock" /\ callPC'[c] = "idle") =>
                       /\ \A i \in DOMAIN hosts :
                              hosts[i] # callArg[c] => healthy'[i] = healthy[i]
                       /\ callArg[c] \notin Range(hosts) => healthy' = healthy
                /\ (callPC[c] # callPC'[c] /\ callPC[c] # "markbad_lock") =>
                       healthy' = healthy]_vars

\* C26 witness: after MarkBad on the first endpoint of a pool of two, the
\* second is still healthy, and a Bad() call holds the first only.
C26_Witness ==
    \E c \in Callers :
        /\ Len(hosts) = 2
        /\ quarantined[hosts[1]] /\ ~healthy[1] /\ healthy[2]
        /\ callPC[c] = "bad_ret" /\ callList[c] = <<hosts[1]>>

\* C27 (as stated): as long as Close is not called, a probe cycle the prober
\* starts is finished with the health-set lock released, and a MarkBad call
\* that waits for the lock returns.
C27_NoDeadlock ==
    [](closePC = "idle") =>
        /\ (probPC = "loop") ~> (probPC = "select")
        /\ \A c \in Callers : (callPC[c] = "markbad_lock") ~> (callPC[c] = "idle")

\* C30: for the counting selector, after any MarkSuccess and MarkFailure
\* calls with known and unknown addresses: numAvailable is the number of
\* addresses marked available and lies between 0 and the number of configured
\* addresses, the known addresses are the configured ones and never change, a
\* call with an unknown address changes nothing, and a call that repeats the
\* call before it changes nothing.
C30_CountInvariant ==
    [][cntErr' = Nil =>
          /\ numAvailable' = Cardinality({a \in DOMAIN cntAddresses' : cntAddresses'[a]})
          /\ numAvailable' \in 0..Len(cntArgs')
          /\ DOMAIN cntAddresses' = Range(cntArgs')
          /\ cntErr = Nil =>
                /\ DOMAIN cntAddresses' = DOMAIN cntAddresses
                /\ cntLast'[2] \notin DOMAIN cntAddresses =>
                       UNCHANGED <<cntAddresses, numAvailable>>
                /\ cntLast' = cntLast => UNCHANGED <<cntAddresses, numAvailable>>]_vars

\* C30 witness: both addresses of a selector of two were marked failed, the
\* second twice or last, and none is available.
C30_Witness ==
    /\ cntErr = Nil
    /\ Len(cntArgs) = 2
    /\ cntLast = <<"MarkFailure", cntArgs[2]>>
    /\ numAvailable = 0
    /\ \A a \in DOMAIN cntAddresses : ~cntAddresses[a]

====
